---- MODULE Spec2Model ----
(***************************************************************************)
(* A model of job-search-api's aggregation core:                           *)
(*   - app/scraper.py  scrape_all: the fan-out over the source adapters,   *)
(*     the shared headless browser, the merge/dedup loop;                  *)
(*   - app/main.py     refresh_jobs, jobspy_jobs, rssjobs_proxy;           *)
(*   - app/cache.py    TTLCache and the two process-wide caches.           *)
(***************************************************************************)
EXTENDS Integers, Sequences, FiniteSets, Bags, TLC

(***************************************************************************)
(* Bounds of the model.                                                    *)
(***************************************************************************)
\* Longest output (number of listings) one adapter returns.
MaxOut == 2

\* The urls the sources can serve.
Urls == {"u1", "u2"}

\* Largest MAX_SCRAPER_SOURCES value tried.
MaxCap == 2

\* The requests that can be in flight together, and the number of requests
\* received in all.
NumSlots == 2
MaxRequests == 2

\* The clock stops here.
MaxTime == 3

\* Longest job list an upstream scrape or feed returns.
MaxJobs == 1

\* cache.py: TTLs in units of five minutes (15 * 60 s and 10 * 60 s), and the
\* capacity, scaled down from 100.
JOBSPY_CACHE_TTL == 3
RSSJOBS_CACHE_TTL == 2
MAX_CACHE_ENTRIES == 1

(***************************************************************************)
(* The adapters scrape_all knows, in the order it lists them.  The model   *)
(* keeps two of the fourteen RSS/HTTP adapters (one whose body is wholly   *)
(* inside try/except, one that lets exceptions escape) and one of the      *)
(* eight headless adapters.                                                *)
(***************************************************************************)
RssAdapters == <<"weworkremotely", "remoteok">>
JobspyAdapter == "jobspy"
HeadlessAdapters == <<"linkedin">>

\* Adapters whose code can let an exception escape to gather: scrape_remoteok
\* has no try/except around fetch, parse and Job(...) construction; the others
\* modelled here catch Exception around their whole body and return [].
CanRaise(a) == a = "remoteok"

\* The `source` an adapter stamps on its Job objects.
SourceName(a) == IF a = "jobspy" THEN "jobspy_indeed" ELSE a

VARIABLES
    \* ---- scrape_all (one call) and the /refresh handler around it
    pc,              \* position of the call
    mode,            \* "rss" | "headless" | "all" (already lower-cased)
    enable_headless, \* enable_headless and PLAYWRIGHT_AVAILABLE and ENABLE_HEADLESS=1
    use_jobspy,      \* USE_JOBSPY=1
    max_sources,     \* MAX_SCRAPER_SOURCES: <<>> when unset or not a number, else <<n>>
    tasks,           \* the coroutine list, by adapter name
    status,          \* per task: "created" | "running" | "settled" | "hung"
    produced,        \* per task: what the adapter coroutine itself returned or raised
    results,         \* per task: the slot of gather's result list
    browser,         \* "none" | "open" | "closed"
    closeCalls,      \* number of browser.close() calls made
    outOfOrder,      \* some task settled while an earlier one was still running
    jobs,            \* the list scrape_all returns
    error_count,     \* scrape_all's local tally (logged)
    source_counts,   \* scrape_all's local per-source counts (logged)
    response,        \* what /refresh answers
    store,           \* the job store written by save_jobs
    \* ---- /jobspy and /rssjobs behind the two process-wide TTL caches
    now,             \* time.monotonic(), in units of five minutes
    cache,           \* per endpoint family: the TTLCache's _store, oldest entry first
    req,             \* the bag of handlers suspended at their upstream call
    last,            \* the response sent by the latest step, with its request
    issued,          \* requests received so far
    \* ---- one TTLCache object driven directly through get and set
    self_ttl,        \* self.ttl
    self_max_entries,\* self.max_entries
    self_store,      \* self._store, oldest entry first
    call,            \* the latest get/set call and what it returned
    written,         \* per stored key: the value and instant of its latest set
    recent,          \* the stored keys by latest set or successful get, oldest first
    \* ---- the cache-key functions applied to two calls
    kcalls,          \* the two calls: the function and its keyword arguments as written
    kkeys,           \* <<>> before the calls, then the two keys returned
    \* ---- calculate_match_score applied to one job
    sinput,          \* the arguments of the call
    score,           \* <<>> before the call, then <<the score returned>>
    yoe_points,      \* <<>> before the call, then <<what lines 186-213 added to score>>
    \* ---- /jobspy handlers as coroutines of one event loop, statement by statement
    running,         \* the coroutine that holds the thread, 0 when the loop is idle
    objs,            \* the TTLCache objects built so far: the _store of each
    global_cache,    \* cache.py's _jobspy_cache: 0 for None, else an index into objs
    h,               \* per handler: position, locals, and its latest finished cache call
    \* ---- scoring.py's text extractors applied to one job's text
    ecall,           \* the function called: "extract_yoe" | "extract_salary_currency" | "enrich"
    eform,           \* how the description is worded: the wording and its numbers
    edesc,           \* the description, character by character
    eloc,            \* the location, character by character
    eout,            \* <<>> before the call, then <<what the call returned or left in the job>>
    ejob,            \* the optional fields of the job as its adapter built it
    efails,          \* where the enrichment of the job raises: "none" | "metadata" | "score"
    eran,            \* how often the job was scored, and whether it was appended
    \* ---- one adapter turning the same raw records into Jobs in two processes
    aname,           \* the adapter: "weworkremotely" | "jobspy"
    araw,            \* the raw records: the feed's entries, or the sites' records in order
    adays,           \* the days argument
    aseed,           \* per process: the seed its interpreter salts str hashes with
    aout,            \* per process: <<>> before the run, then <<the list returned>>
    \* ---- the read endpoints over the stored jobs
    jstore,          \* what load_jobs() returns
    jreq,            \* the request: the operation and its query parameters
    jverdict,        \* per stored job: "kept", or the filter whose `continue` dropped it
    jresp,           \* <<>> before the request is served, then <<the response>>
    \* ---- one fetch_text call
    retries,         \* the retries argument
    attempt,         \* the loop variable of `for attempt in range(retries + 1)`
    fpc,             \* "get" (awaiting client.get) | "sleep" (awaiting asyncio.sleep) | "left"
    history,         \* what each client.get of the call produced, in order
    wait_time,       \* <<>>, or <<seconds>> while the call sleeps before a retry
    fout,            \* <<>> while the call runs, then <<how it ended>>
    \* ---- one _retry_headless_operation call
    max_retries,     \* the max_retries argument
    delay,           \* the delay argument, in seconds
    rattempt,        \* the loop variable of `for attempt in range(max_retries + 1)`
    rpc,             \* "call" (awaiting operation()) | "sleep" | "left"
    rcalls,          \* what each operation() call did, in order
    rwaits,          \* the seconds given to each asyncio.sleep, in order
    rout,            \* <<>> while the call runs, then <<how it ended>>
    \* ---- the jobspy adapter from its site selection on, and a limited response
    gcall,           \* "resolve_jobspy_sites" | "jobspy_jobs" | "rssjobs_proxy"
    gsites,          \* the sites argument: <<>> for None, else <<the list of names>>
    gpreset,         \* the preset argument: <<>> for None, else <<the name>>
    glimit,          \* the limit parameter of the request
    site_does,       \* per supported site: what jobspy's scrape of it does
    gfeed,           \* the entries of the rssjobs.app feed
    gout,            \* <<>> before the call, then <<what it returned>>
    \* ---- /refresh handlers sharing the job store
    data_file,       \* the content of data/jobs.json
    rprev,           \* what the store held before the first of the requests
    rh,              \* per handler: "idle" | "scraping" | "done", and the jobs its scrape returned
    rlog,            \* the starts and completions of the handlers, in order
    \* ---- the collection loop of one headless adapter
    loop_kind,       \* "scroll" (linkedin, hirist) | "page" (indeed_headless, naukri, ...)
    max_results,     \* the parameter
    jobs_data,       \* the raw items collected so far
    seen_urls,       \* the urls of jobs_data
    scroll_attempts, \* the counter of a scroll loop
    page_num,        \* the counter of a page loop
    new_jobs,        \* what the last extraction returned
    next_button,     \* the last look for a next page: "none" | "clicked" | "absent" | "raises"
    iterations,      \* how many times the loop body has run
    lpc              \* "idle" | "loop" | "closed" | "raised"

scrapeVars == <<pc, mode, enable_headless, use_jobspy, max_sources, tasks, status,
                produced, results, browser, closeCalls, outOfOrder, jobs,
                error_count, source_counts, response, store>>

cacheVars == <<now, cache, req, last, issued>>

ttlVars == <<self_ttl, self_max_entries, self_store, call, written, recent>>

\* The state outside scrape_all and the two endpoint handlers.
keyVars == <<kcalls, kkeys>>

scoreVars == <<sinput, score, yoe_points>>

loopVars == <<running, objs, global_cache, h>>

enrichVars == <<ecall, eform, edesc, eloc, eout, ejob, efails, eran>>

\* The units added after the event-loop model.
adaptVars == <<aname, araw, adays, aseed, aout>>

jobsVars == <<jstore, jreq, jverdict, jresp>>

fetchVars == <<retries, attempt, fpc, history, wait_time, fout>>

retryVars == <<max_retries, delay, rattempt, rpc, rcalls, rwaits, rout>>

\* The units added after fetch_text, and the ones before them.
jobspyVars == <<gcall, gsites, gpreset, glimit, site_does, gfeed, gout>>

refreshVars == <<data_file, rprev, rh, rlog>>

collectVars == <<loop_kind, max_results, jobs_data, seen_urls, scroll_attempts, page_num,
                 new_jobs, next_button, iterations, lpc>>

lateVars == <<retryVars, jobspyVars, refreshVars, collectVars>>

extVars == <<enrichVars, adaptVars, jobsVars, fetchVars, lateVars>>

\* The units up to the event-loop model.
coreVars == <<scrapeVars, cacheVars, ttlVars, keyVars, scoreVars, loopVars>>

unitVars == <<ttlVars, keyVars, scoreVars, loopVars, extVars>>

vars == <<scrapeVars, cacheVars, unitVars>>

(***************************************************************************)
(* Values.                                                                 *)
(***************************************************************************)
\* A Job as far as the merge reads it: url, source, and where it came from
\* (task index and position in that task's output).
Listing(u, a, i, k) == [url |-> u, source |-> SourceName(a), src |-> i, pos |-> k]

\* What a settled coroutine hands to gather.
NoResult == [kind |-> "none", jobs |-> <<>>, swallowed |-> FALSE]
Raised == [kind |-> "exc", jobs |-> <<>>, swallowed |-> FALSE]
Returned(js, sw) == [kind |-> "list", jobs |-> js, swallowed |-> sw]

\* All url sequences of length at most n.
RECURSIVE UrlSeqs(_)
UrlSeqs(n) ==
    IF n = 0 THEN {<<>>}
    ELSE LET shorter == UrlSeqs(n - 1)
         IN  shorter \cup {Append(s, u) : s \in {t \in shorter : Len(t) = n - 1}, u \in Urls}

Outputs == UrlSeqs(MaxOut)

\* xs[:n] of Python, n >= 0.
Take(xs, n) == SubSeq(xs, 1, IF n < Len(xs) THEN n ELSE Len(xs))
Range(xs) == {xs[k] : k \in DOMAIN xs}

\* `if max_sources is not None: xs = xs[:max_sources]`.
Truncate(xs, cap) == IF cap = <<>> THEN xs ELSE Take(xs, cap[1])

Constant(n, v) == [i \in 1..n |-> v]

(***************************************************************************)
(* scrape_all: building the task list.                                     *)
(***************************************************************************)
\* The RSS/HTTP coroutines, capped, then the optional jobspy coroutine.
BaseTasks ==
    LET rss == IF mode \in {"rss", "all"} THEN Truncate(RssAdapters, max_sources) ELSE <<>>
        spy == IF use_jobspy /\ mode \in {"headless", "all"} THEN <<JobspyAdapter>> ELSE <<>>
    IN  rss \o spy

UsesBrowser == enable_headless /\ mode \in {"headless", "all"}

\* asyncio.gather(*ts): a coroutine not yet awaited starts running; one that
\* was already awaited cannot be reused (its task fails at once with
\* RuntimeError, which return_exceptions=True hands back as a result).
GatherStatus(st) == [i \in DOMAIN st |-> IF st[i] = "created" THEN "running" ELSE st[i]]
GatherSlots(st) == [i \in DOMAIN st |-> IF st[i] = "created" THEN NoResult ELSE Raised]

(***************************************************************************)
(* scrape_all: the merge loop over gather's results.                       *)
(***************************************************************************)
\* Mutation of DedupInto: a later listing of a seen url replaces the kept one.
RECURSIVE DedupIntoLastWins(_, _, _)
DedupIntoLastWins(acc, res, k) ==
    IF k > Len(res) THEN acc
    ELSE IF res[k].url \in acc.seen
         THEN DedupIntoLastWins(
                  [acc EXCEPT !.jobs = [n \in DOMAIN @ |->
                                           IF @[n].url = res[k].url THEN res[k] ELSE @[n]]],
                  res, k + 1)
         ELSE DedupIntoLastWins([acc EXCEPT !.jobs = Append(@, res[k]),
                                            !.seen = @ \cup {res[k].url}], res, k + 1)

\* The inner `for job in res` loop: skip a url already seen, else keep it.
RECURSIVE DedupInto(_, _, _)
DedupInto(acc, res, k) ==
    IF k > Len(res) THEN acc
    ELSE IF res[k].url \in acc.seen
         THEN DedupInto(acc, res, k + 1)
         ELSE DedupInto([acc EXCEPT !.jobs = Append(@, res[k]),
                                    !.seen = @ \cup {res[k].url}], res, k + 1)

\* source_counts[name] = n: a later assignment to the same name replaces it.
SetCount(sc, name, n) == (name :> n) @@ sc

\* `res[0].source if res else f"scraper_{i}"` (i counts from 0).
CountName(res, i) == IF Len(res) > 0 THEN res[1].source ELSE "scraper_" \o ToString(i - 1)

\* The outer `for i, res in enumerate(results)` loop.
RECURSIVE MergeFrom(_, _, _)
MergeFrom(acc, rs, i) ==
    IF i > Len(rs) THEN acc
    ELSE IF rs[i].kind = "exc"
         THEN MergeFrom([acc EXCEPT !.error_count = @ + 1], rs, i + 1)
         ELSE LET counted == [acc EXCEPT !.source_counts =
                                 SetCount(@, CountName(rs[i].jobs, i), Len(rs[i].jobs))]
              IN  MergeFrom(DedupInto(counted, rs[i].jobs, 1), rs, i + 1)

EmptyCounts == [n \in {} |-> 0]

Merge(rs) ==
    MergeFrom([jobs |-> <<>>, seen |-> {}, error_count |-> 0,
               source_counts |-> EmptyCounts], rs, 1)

(***************************************************************************)
(* scrape_all: the steps of one call.                                      *)
(***************************************************************************)
Modes == {"rss", "headless", "all"}
Caps == {<<>>} \cup {<<n>> : n \in 0..MaxCap}

InitScrape ==
    /\ pc = "start"
    /\ mode \in Modes
    /\ enable_headless \in BOOLEAN
    /\ use_jobspy \in BOOLEAN
    /\ max_sources \in Caps
    /\ tasks = <<>>
    /\ status = <<>>
    /\ produced = <<>>
    /\ results = <<>>
    /\ browser = "none"
    /\ closeCalls = 0
    /\ outOfOrder = FALSE
    /\ jobs = <<>>
    /\ error_count = 0
    /\ source_counts = EmptyCounts
    /\ response = [ok |-> FALSE, count |-> 0, jobs |-> <<>>]
    /\ store = <<>>

frameMerge == <<jobs, error_count, source_counts, response, store>>
\* The call's inputs, and the state of the rest of the process.
frameConfig == <<mode, enable_headless, use_jobspy, max_sources, cacheVars, unitVars>>

\* Hand the coroutine list ts to asyncio.gather and suspend at `await`.
AwaitGather(ts, st) ==
    /\ tasks' = ts
    /\ status' = GatherStatus(st)
    /\ results' = GatherSlots(st)

\* The else branch: no browser; cap the list and gather it.
StartGatherPlain ==
    /\ pc = "start"
    /\ ~UsesBrowser
    /\ LET ts == Truncate(BaseTasks, max_sources)
       IN  /\ AwaitGather(ts, Constant(Len(ts), "created"))
           /\ produced' = Constant(Len(ts), NoResult)
    /\ pc' = "gather_plain"
    /\ UNCHANGED <<browser, closeCalls, outOfOrder, frameMerge, frameConfig>>

\* async_playwright() and chromium.launch succeed: the headless coroutines
\* are created with the shared browser, the list is capped and gathered.
LaunchBrowser ==
    /\ pc = "start"
    /\ UsesBrowser
    /\ browser' = "open"
    /\ LET ts == Truncate(BaseTasks \o HeadlessAdapters, max_sources)
       IN  /\ AwaitGather(ts, Constant(Len(ts), "created"))
           /\ produced' = Constant(Len(ts), NoResult)
    /\ pc' = "gather_headless"
    /\ UNCHANGED <<closeCalls, outOfOrder, frameMerge, frameConfig>>

\* async_playwright() or chromium.launch raises: `except Exception` caps and
\* gathers the coroutines built so far (no headless coroutine exists yet).
LaunchFails ==
    /\ pc = "start"
    /\ UsesBrowser
    /\ LET ts == Truncate(BaseTasks, max_sources)
       IN  /\ AwaitGather(ts, Constant(Len(ts), "created"))
           /\ produced' = Constant(Len(ts), NoResult)
    /\ pc' = "gather_fallback"
    /\ UNCHANGED <<browser, closeCalls, outOfOrder, frameMerge, frameConfig>>

Gathering == pc \in {"gather_plain", "gather_headless", "gather_fallback"}

\* Mutation of StoreResult: outcomes are collected in completion order.
StoreResultInCompletionOrder(rs, i, r) ==
    LET free == {n \in DOMAIN rs : rs[n].kind = "none"}
        slot == CHOOSE n \in free : \A m \in free : n <= m
    IN  [rs EXCEPT ![slot] = r]

\* gather stores a task's outcome in the slot of its position in the list.
StoreResult(rs, i, r) == [rs EXCEPT ![i] = r]

Settle(i, r) ==
    /\ Gathering
    /\ i \in DOMAIN tasks
    /\ status[i] = "running"
    /\ status' = [status EXCEPT ![i] = "settled"]
    /\ produced' = [produced EXCEPT ![i] = r]
    /\ results' = StoreResult(results, i, r)
    /\ outOfOrder' = (outOfOrder \/ \E j \in 1..(i - 1) : status[j] = "running")
    /\ UNCHANGED <<pc, tasks, browser, closeCalls, frameMerge, frameConfig>>

\* An adapter returns its list of Job objects.
AdapterReturns(i) ==
    \E out \in Outputs :
        Settle(i, Returned([k \in 1..Len(out) |-> Listing(out[k], tasks[i], i, k)], FALSE))

\* An adapter's fetch or parse fails inside its own try/except (or fetch_text
\* gives ""): the adapter logs and returns [].
AdapterSwallowsFailure(i) == Settle(i, Returned(<<>>, TRUE))

\* An exception escapes the adapter coroutine.
AdapterRaises(i) ==
    /\ i \in DOMAIN tasks
    /\ CanRaise(tasks[i])
    /\ Settle(i, Raised)

\* An adapter never completes (nothing in scrape_all bounds its run time).
AdapterHangs(i) ==
    /\ Gathering
    /\ i \in DOMAIN tasks
    /\ status[i] = "running"
    /\ status' = [status EXCEPT ![i] = "hung"]
    /\ UNCHANGED <<pc, tasks, produced, results, browser, closeCalls, outOfOrder,
                   frameMerge, frameConfig>>

\* Mutation of GatherDone: the awaiter resumes as soon as one task has settled.
GatherDoneOnFirst(st) == st = <<>> \/ \E i \in DOMAIN st : st[i] = "settled"

\* Mutation of GatherReturns: no `finally`, the browser is never closed.
GatherReturnsSkippingClose ==
    /\ pc \in {"gather_plain", "gather_headless", "gather_fallback"}
    /\ \A i \in DOMAIN status : status[i] = "settled"
    /\ pc' = "merge"
    /\ UNCHANGED <<tasks, status, produced, results, browser, closeCalls, outOfOrder,
                   jobs, error_count, source_counts, response, store,
                   mode, enable_headless, use_jobspy, max_sources, cacheVars, unitVars>>

\* gather(..., return_exceptions=True) resumes its awaiter once every task
\* has settled, whatever each one returned or raised.
GatherDone(st) == \A i \in DOMAIN st : st[i] = "settled"

GatherReturns ==
    /\ Gathering
    /\ GatherDone(status)
    /\ pc' = IF pc = "gather_headless" THEN "finally" ELSE "merge"
    /\ UNCHANGED <<tasks, status, produced, results, browser, closeCalls, outOfOrder,
                   frameMerge, frameConfig>>

\* `finally: await browser.close()` succeeds; the async-with block exits.
BrowserClose ==
    /\ pc = "finally"
    /\ browser' = "closed"
    /\ closeCalls' = closeCalls + 1
    /\ pc' = "merge"
    /\ UNCHANGED <<tasks, status, produced, results, outOfOrder, frameMerge, frameConfig>>

\* browser.close() raises: the exception leaves the async-with block (which
\* stops the Playwright driver and with it the browser) and reaches
\* `except Exception`, which gathers the same, already awaited, coroutines.
BrowserCloseRaises ==
    /\ pc = "finally"
    /\ browser' = "closed"
    /\ closeCalls' = closeCalls + 1
    /\ AwaitGather(Truncate(tasks, max_sources), status)
    /\ pc' = "gather_fallback"
    /\ UNCHANGED <<produced, outOfOrder, frameMerge, frameConfig>>

\* Mutation of MergeResults: the loop runs over the slots filled so far as
\* soon as one task has settled, while the others are still running.
MergeResultsWhileGathering ==
    /\ pc = "merge" \/ (Gathering /\ GatherDoneOnFirst(status))
    /\ LET m == Merge(SelectSeq(results, LAMBDA r : r.kind # "none"))
       IN  /\ jobs' = m.jobs
           /\ error_count' = m.error_count
           /\ source_counts' = m.source_counts
    /\ pc' = "done"
    /\ UNCHANGED <<tasks, status, produced, results, browser, closeCalls, outOfOrder,
                   response, store, frameConfig>>

\* The loop over results, the log line and `return jobs`.
MergeResults ==
    /\ pc = "merge"
    /\ LET m == Merge(results)
       IN  /\ jobs' = m.jobs
           /\ error_count' = m.error_count
           /\ source_counts' = m.source_counts
    /\ pc' = "done"
    /\ UNCHANGED <<tasks, status, produced, results, browser, closeCalls, outOfOrder,
                   response, store, frameConfig>>

(***************************************************************************)
(* main.refresh_jobs around scrape_all: save_jobs(jobs), then the          *)
(* JobsResponse(ok=True, count=len(jobs), jobs=jobs).                      *)
(***************************************************************************)
JobsResponse(js) == [ok |-> TRUE, count |-> Len(js), jobs |-> js]

refresh_jobs ==
    /\ pc = "done"
    /\ store' = jobs
    /\ response' = JobsResponse(jobs)
    /\ pc' = "responded"
    /\ UNCHANGED <<tasks, status, produced, results, browser, closeCalls, outOfOrder,
                   jobs, error_count, source_counts, frameConfig>>

TaskIds == 1..(Len(RssAdapters) + 1 + Len(HeadlessAdapters))

NextScrape ==
    \/ StartGatherPlain
    \/ LaunchBrowser
    \/ LaunchFails
    \/ \E i \in TaskIds : AdapterReturns(i)
    \/ \E i \in TaskIds : AdapterSwallowsFailure(i)
    \/ \E i \in TaskIds : AdapterRaises(i)
    \/ \E i \in TaskIds : AdapterHangs(i)
    \/ GatherReturns
    \/ BrowserClose
    \/ BrowserCloseRaises
    \/ MergeResults
    \/ refresh_jobs


(***************************************************************************)
(* cache.py: TTLCache.  The _store is an OrderedDict: a sequence of        *)
(* entries, oldest first; the back is the most recently set or read.       *)
(***************************************************************************)
Endpoints == {"jobspy", "rssjobs"}

\* get_jobspy_cache / get_rssjobs_cache: each family's TTL.
TtlOf(ep) == IF ep = "jobspy" THEN JOBSPY_CACHE_TTL ELSE RSSJOBS_CACHE_TTL

Entry(k, v, e) == [key |-> k, val |-> v, expires |-> e]

Keys(st) == {st[n].key : n \in DOMAIN st}

\* The position of key k in the store (k is stored).
IndexOf(st, k) == CHOOSE n \in DOMAIN st : st[n].key = k

\* del self._store[key]
Remove(st, k) == SelectSeq(st, LAMBDA e : e.key # k)

\* Mutation of MoveToEnd: the entry keeps its position.
KeepPosition(st, k) == st

\* self._store.move_to_end(key)
MoveToEnd(st, k) == Append(Remove(st, k), st[IndexOf(st, k)])

\* Mutation of Expired: an entry is dropped one tick before its expiry.
ExpiredEarly(e, t) == t + 1 >= e.expires

\* `now >= expires`
Expired(e, t) == t >= e.expires

\* Mutation of TTLCache_get: an expired entry is reported absent but kept.
TTLCache_getKeepingExpired(st, k, t) ==
    IF k \notin Keys(st) THEN [val |-> <<>>, store |-> st]
    ELSE LET e == st[IndexOf(st, k)]
         IN  IF Expired(e, t)
             THEN [val |-> <<>>, store |-> st]
             ELSE [val |-> <<e.val>>, store |-> MoveToEnd(st, k)]

\* TTLCache.get: <<>> is None, <<v>> the value; with the store it leaves.
TTLCache_get(st, k, t) ==
    IF k \notin Keys(st) THEN [val |-> <<>>, store |-> st]
    ELSE LET e == st[IndexOf(st, k)]
         IN  IF Expired(e, t)
             THEN [val |-> <<>>, store |-> Remove(st, k)]
             ELSE [val |-> <<e.val>>, store |-> MoveToEnd(st, k)]

\* Mutation of EvictWhileFull: evicts only once the capacity is exceeded.
RECURSIVE EvictWhileOver(_, _)
EvictWhileOver(st, max_entries) ==
    IF Len(st) > max_entries /\ Len(st) > 0
    THEN EvictWhileOver(Tail(st), max_entries)
    ELSE st

\* `while len(self._store) >= self.max_entries and self._store: popitem(last=False)`
RECURSIVE EvictWhileFull(_, _)
EvictWhileFull(st, max_entries) ==
    IF Len(st) >= max_entries /\ Len(st) > 0
    THEN EvictWhileFull(Tail(st), max_entries)
    ELSE st

\* Mutation of Assign: a stored key keeps the expiry of its first write.
AssignKeepingExpiry(st, k, v, e) ==
    IF k \in Keys(st)
    THEN [st EXCEPT ![IndexOf(st, k)] = Entry(k, v, st[IndexOf(st, k)].expires)]
    ELSE Append(st, Entry(k, v, e))

\* self._store[key] = (value, now + ttl): in place when the key is stored.
Assign(st, k, v, e) ==
    IF k \in Keys(st)
    THEN [st EXCEPT ![IndexOf(st, k)] = Entry(k, v, e)]
    ELSE Append(st, Entry(k, v, e))

\* TTLCache.set: the store it leaves.
TTLCache_set(st, k, v, t, ttl, max_entries) ==
    MoveToEnd(Assign(EvictWhileFull(st, max_entries), k, v, t + ttl), k)

(***************************************************************************)
(* cache.py: the cache keys.  A str is a sequence of characters; an        *)
(* Optional value is <<>> for None and <<v>> otherwise.                    *)
(***************************************************************************)
None == <<>>
Some(v) == <<v>>

\* str.lower() on one character.
LowerChar(c) ==
    CASE c = "A" -> "a"
      [] c = "B" -> "b"
      [] c = "C" -> "c"
      [] c = "D" -> "d"
      [] c = "E" -> "e"
      [] c = "F" -> "f"
      [] c = "G" -> "g"
      [] c = "H" -> "h"
      [] c = "I" -> "i"
      [] c = "J" -> "j"
      [] c = "K" -> "k"
      [] c = "L" -> "l"
      [] c = "M" -> "m"
      [] c = "N" -> "n"
      [] c = "O" -> "o"
      [] c = "P" -> "p"
      [] c = "Q" -> "q"
      [] c = "R" -> "r"
      [] c = "S" -> "s"
      [] c = "T" -> "t"
      [] c = "U" -> "u"
      [] c = "V" -> "v"
      [] c = "W" -> "w"
      [] c = "X" -> "x"
      [] c = "Y" -> "y"
      [] c = "Z" -> "z"
      [] OTHER -> c

\* Mutation of Lower: the case is kept.
KeepCase(t) == t

\* str.lower()
Lower(t) == [n \in DOMAIN t |-> LowerChar(t[n])]

\* str.strip(): leading and trailing whitespace removed.
RECURSIVE LStrip(_)
LStrip(t) == IF t # <<>> /\ Head(t) = " " THEN LStrip(Tail(t)) ELSE t

RECURSIVE RStrip(_)
RStrip(t) ==
    IF t # <<>> /\ t[Len(t)] = " " THEN RStrip(SubSeq(t, 1, Len(t) - 1)) ELSE t

Strip(t) == RStrip(LStrip(t))

\* The text of a character sequence.
RECURSIVE Concat(_)
Concat(t) == IF t = <<>> THEN "" ELSE Head(t) \o Concat(Tail(t))

\* `x or default` for an Optional[str]: None and "" are both falsy.
Or(x, default) == IF x = None \/ x = Some(<<>>) THEN default ELSE x[1]

\* `(x or default).strip().lower()`
Normalized(x, default) == Lower(Strip(Or(x, default)))

\* The parameter names of both key functions, as sorted() orders them.
Alphabetical ==
    <<"country", "days", "is_remote", "keywords", "limit", "location", "preset", "q",
      "sites">>

\* sha256(...).hexdigest()[:32], taken as a tag on the text it digests.
Digest(text) == <<"sha256", text>>

\* _make_key: params is a dict (a function from names to Optional values);
\* the None values are dropped, the items sorted by name, dumped and hashed.
make_key(prefix, params) ==
    LET names == SelectSeq(Alphabetical,
                           LAMBDA k : k \in DOMAIN params /\ params[k] # None)
        normalized == [n \in DOMAIN names |-> <<names[n], params[names[n]][1]>>]
    IN  <<prefix, Digest(normalized)>>

usa == <<"u", "s", "a">>

jobspy_cache_key(q, location, days, limit, sites, preset, country, is_remote) ==
    make_key("jobspy",
             [k \in {"q", "location", "days", "limit", "sites", "preset", "country",
                      "is_remote"} |->
                 CASE k = "q" -> Some(Normalized(q, <<>>))
                   [] k = "location" -> Some(Normalized(location, <<>>))
                   [] k = "days" -> Some(days)
                   [] k = "limit" -> Some(limit)
                   [] k = "sites" -> Some(Normalized(sites, <<>>))
                   [] k = "preset" -> Some(Normalized(preset, <<>>))
                   [] k = "country" -> Some(Normalized(country, usa))
                   [] k = "is_remote" -> Some(is_remote)])

rssjobs_cache_key(keywords, location, limit) ==
    make_key("rssjobs",
             [k \in {"keywords", "location", "limit"} |->
                 CASE k = "keywords" -> Some(Normalized(keywords, <<>>))
                   [] k = "location" -> Some(Normalized(location, <<>>))
                   [] k = "limit" -> Some(limit)])

\* The search texts the requests of the endpoint model carry.
Queries == {<<"a">>, <<"b">>}

\* The key a handler computes for search text q, every other parameter at
\* its default (main.py: days=3, limit=100, country="usa", location="remote").
KeyOf(ep, q) ==
    IF ep = "jobspy"
    THEN jobspy_cache_key(Some(q), None, 3, 100, None, None, Some(Or(Some(usa), usa)), FALSE)
    ELSE rssjobs_cache_key(Some(q), Some(<<"r">>), 100)

(***************************************************************************)
(* main.py: jobspy_jobs and rssjobs_proxy.  A handler runs without         *)
(* suspension from its start to its cache lookup; on a miss (or with       *)
(* skip_cache) it awaits the upstream scrape or fetch, and on resumption   *)
(* stores and answers without suspension.                                  *)
(***************************************************************************)
\* The job lists an upstream scrape or feed can yield.
Catalogue == <<"u1", "u2", "u3">>
JobLists == {Take(Catalogue, n) : n \in 0..MaxJobs}

\* JobsResponse(ok=True, count=len(jobs), jobs=jobs).model_dump(mode="json")
Payload(js) == [ok |-> TRUE, count |-> Len(js), jobs |-> js, error |-> "None"]

\* The error bodies of rssjobs_proxy (empty feed, parse error, timeout, HTTP
\* error, any other exception): they differ in the message text only.
ErrorContent == [ok |-> FALSE, count |-> 0, jobs |-> <<>>, error |-> "message"]

NoContent == [ok |-> FALSE, count |-> 0, jobs |-> <<>>, error |-> "unanswered"]

\* The unexpired value stored under key k at time t, read off the store
\* without TTLCache.get: <<>> when there is none.
Unexpired(st, k, t) ==
    LET live == {n \in DOMAIN st : st[n].key = k /\ t < st[n].expires}
    IN  IF live = {} THEN <<>> ELSE <<st[CHOOSE n \in live : TRUE].val>>

\* A handler suspended at its upstream call.  `found` remembers what the
\* cache held for the key when the request arrived.
Request(ep, q, skip, found) == [ep |-> ep, q |-> q, skip_cache |-> skip, found |-> found]

\* The response the latest step sent, if it sent one: the request, whether
\* its handler called upstream, and the body and X-Cache header.
NoAnswer == [answered |-> FALSE, ep |-> "jobspy", q |-> <<"a">>, skip_cache |-> FALSE,
             found |-> <<>>, fetched |-> FALSE, content |-> NoContent, x_cache |-> "none"]

InitCache ==
    /\ now = 0
    /\ cache = [ep \in Endpoints |-> <<>>]
    /\ req = EmptyBag
    /\ last = NoAnswer
    /\ issued = 0

\* JSONResponse(content=..., headers=_jobs_response_headers(hit))
Respond(r, content, hit, fetched) ==
    [answered |-> TRUE, ep |-> r.ep, q |-> r.q, skip_cache |-> r.skip_cache,
     found |-> r.found, fetched |-> fetched, content |-> content,
     x_cache |-> IF hit THEN "HIT" ELSE "MISS"]

\* Mutation of Lookup: the skip_cache flag is ignored.
LookupIgnoringSkip(st, k, t, skip) == TTLCache_get(st, k, t)

\* `if not skip_cache: cached = cache.get(key)`: what the lookup returns and
\* the store it leaves.
Lookup(st, k, t, skip) ==
    IF skip THEN [val |-> <<>>, store |-> st] ELSE TTLCache_get(st, k, t)

\* A request arrives: key, cache lookup unless skip_cache, then either the
\* cached answer or the upstream call.
HandlerStart(ep, q, skip) ==
    /\ BagCardinality(req) < NumSlots
    /\ issued < MaxRequests
    /\ issued' = issued + 1
    /\ LET k == KeyOf(ep, q)
           r == Request(ep, q, skip, Unexpired(cache[ep], k, now))
           got == Lookup(cache[ep], k, now, skip)
       IN  /\ cache' = [cache EXCEPT ![ep] = got.store]
           /\ IF got.val # <<>>
              THEN /\ last' = Respond(r, got.val[1], TRUE, FALSE)
                   /\ UNCHANGED req
              ELSE /\ req' = req (+) SetToBag({r})
                   /\ last' = NoAnswer
    /\ UNCHANGED <<now, scrapeVars, unitVars>>

jobspy_jobs(q, skip) == HandlerStart("jobspy", q, skip)

rssjobs_proxy(q, skip) == HandlerStart("rssjobs", q, skip)

\* Mutation of StoreAndRespond: an empty result is answered but not stored.
StoreUnlessEmpty(r, js) ==
    /\ BagIn(r, req)
    /\ cache' = [cache EXCEPT ![r.ep] =
                    IF js = <<>> THEN @
                    ELSE TTLCache_set(@, KeyOf(r.ep, r.q), Payload(js), now,
                                      TtlOf(r.ep), MAX_CACHE_ENTRIES)]
    /\ last' = Respond(r, Payload(js), FALSE, TRUE)
    /\ req' = req (-) SetToBag({r})
    /\ UNCHANGED <<now, issued, scrapeVars, unitVars>>

\* The upstream call of handler r returned jobs: cache.set(key, payload) and
\* answer MISS.
StoreAndRespond(r, js) ==
    /\ BagIn(r, req)
    /\ cache' = [cache EXCEPT ![r.ep] =
                    TTLCache_set(@, KeyOf(r.ep, r.q), Payload(js), now,
                                 TtlOf(r.ep), MAX_CACHE_ENTRIES)]
    /\ last' = Respond(r, Payload(js), FALSE, TRUE)
    /\ req' = req (-) SetToBag({r})
    /\ UNCHANGED <<now, issued, scrapeVars, unitVars>>

\* scrape_jobspy_sources returns (it returns [] rather than raise).
JobspyScrapeReturns ==
    \E r \in BagToSet(req), js \in JobLists : r.ep = "jobspy" /\ StoreAndRespond(r, js)

\* The rssjobs.app feed was fetched and parsed.
RssFetchReturns ==
    \E r \in BagToSet(req), js \in JobLists : r.ep = "rssjobs" /\ StoreAndRespond(r, js)

\* Mutation of RssFetchFails: the error body is stored under the key before
\* it is returned.
RssFetchFailsStoringError ==
    \E r \in BagToSet(req) :
        /\ r.ep = "rssjobs"
        /\ cache' = [cache EXCEPT ![r.ep] =
                        TTLCache_set(@, KeyOf(r.ep, r.q), ErrorContent, now,
                                     TtlOf(r.ep), MAX_CACHE_ENTRIES)]
        /\ last' = Respond(r, ErrorContent, FALSE, TRUE)
        /\ req' = req (-) SetToBag({r})
        /\ UNCHANGED <<now, issued, scrapeVars, unitVars>>

\* Timeout, HTTP error, empty body, parse error or any other exception:
\* an ok=false body, nothing stored.
RssFetchFails ==
    \E r \in BagToSet(req) :
        /\ r.ep = "rssjobs"
        /\ last' = Respond(r, ErrorContent, FALSE, TRUE)
        /\ req' = req (-) SetToBag({r})
        /\ UNCHANGED <<now, cache, issued, scrapeVars, unitVars>>

\* Time passes.
Tick ==
    /\ now < MaxTime
    /\ now' = now + 1
    /\ last' = NoAnswer
    /\ UNCHANGED <<cache, req, issued, scrapeVars, unitVars>>

NextCache ==
    \/ \E q \in Queries, skip \in BOOLEAN : jobspy_jobs(q, skip)
    \/ \E q \in Queries, skip \in BOOLEAN : rssjobs_proxy(q, skip)
    \/ JobspyScrapeReturns
    \/ RssFetchReturns
    \/ RssFetchFails
    \/ Tick

(***************************************************************************)
(* cache.py: one TTLCache object, built with a TTL and a capacity and then *)
(* driven through get and set while time passes.                           *)
(***************************************************************************)
\* The TTLs the program builds a TTLCache with, and the capacities tried.
Ttls == {RSSJOBS_CACHE_TTL, JOBSPY_CACHE_TTL}
Capacities == {1, 2}

CacheKeys == {"A", "B", "C"}
CacheValues == {"v1", "v2"}

\* A call as recorded in `call`: the operation and key, the instant, what the
\* object held on entry (the latest set of the key if it is stored, whether
\* the store was at capacity, its least recently used key), what the call
\* returned and which other keys it removed.
Call(op, k, ret, evicted) ==
    [op |-> op, key |-> k, at |-> now, had |-> written[k],
     full |-> Len(self_store) >= self_max_entries,
     oldest |-> IF recent = <<>> THEN <<>> ELSE <<Head(recent)>>,
     ret |-> ret, evicted |-> evicted]

NoCall == [op |-> "none", key |-> "A", at |-> 0, had |-> <<>>, full |-> FALSE,
           oldest |-> <<>>, ret |-> <<>>, evicted |-> {}]

\* f restricted to what is still stored after the call.
OnStored(f, st) == [k \in CacheKeys |-> IF k \in Keys(st) THEN f[k] ELSE <<>>]

\* The key k becomes the most recently used one.
Touch(rs, k) == Append(SelectSeq(rs, LAMBDA x : x # k), k)

StillStored(rs, st) == SelectSeq(rs, LAMBDA x : x \in Keys(st))

\* No TTLCache object under test.
IdleTTL ==
    /\ self_ttl = 0
    /\ self_max_entries = 0
    /\ self_store = <<>>
    /\ call = NoCall
    /\ written = [k \in CacheKeys |-> <<>>]
    /\ recent = <<>>

\* TTLCache.__init__
TTLCache_init ==
    /\ self_ttl \in Ttls
    /\ self_max_entries \in Capacities
    /\ self_store = <<>>
    /\ call = NoCall
    /\ written = [k \in CacheKeys |-> <<>>]
    /\ recent = <<>>

\* cache.get(k)
CacheGet(k) ==
    LET got == TTLCache_get(self_store, k, now)
    IN  /\ self_store' = got.store
        /\ call' = Call("get", k, got.val, {})
        /\ written' = OnStored(written, got.store)
        /\ recent' = StillStored(IF got.val # <<>> THEN Touch(recent, k) ELSE recent,
                                 got.store)
        /\ UNCHANGED <<now, self_ttl, self_max_entries>>
        /\ UNCHANGED <<cache, req, last, issued, scrapeVars, keyVars, scoreVars, loopVars, extVars>>

\* cache.set(k, v)
CacheSet(k, v) ==
    LET st == TTLCache_set(self_store, k, v, now, self_ttl, self_max_entries)
    IN  /\ self_store' = st
        /\ call' = Call("set", k, <<>>,
                         {[key |-> x, at |-> written[x][2]] :
                             x \in Keys(self_store) \ Keys(st)})
        /\ written' = OnStored([written EXCEPT ![k] = <<v, now>>], st)
        /\ recent' = StillStored(Touch(recent, k), st)
        /\ UNCHANGED <<now, self_ttl, self_max_entries>>
        /\ UNCHANGED <<cache, req, last, issued, scrapeVars, keyVars, scoreVars, loopVars, extVars>>

\* time.monotonic() advances between two calls.
Elapse ==
    /\ now < MaxTime
    /\ now' = now + 1
    /\ call' = NoCall
    /\ UNCHANGED <<self_ttl, self_max_entries, self_store, written, recent>>
    /\ UNCHANGED <<cache, req, last, issued, scrapeVars, keyVars, scoreVars, loopVars, extVars>>

NextTTL ==
    \/ \E k \in CacheKeys : CacheGet(k)
    \/ \E k \in CacheKeys, v \in CacheValues : CacheSet(k, v)
    \/ Elapse

(***************************************************************************)
(* cache.py: the key functions called twice with keyword arguments, the    *)
(* arguments written in any order.                                         *)
(***************************************************************************)
OptTexts ==
    {None, Some(<<>>), Some(<<" ">>), Some(<<"a">>), Some(<<"A">>), Some(<<" ", "A", " ">>)}

JobspyParams == <<"q", "location", "days", "limit", "sites", "preset", "country", "is_remote">>
RssjobsParams == <<"keywords", "location", "limit">>

\* The argument values tried, by parameter name.
JobspyArgs ==
    [q : OptTexts, location : {None, Some(<<>>)}, days : {3}, limit : {50},
     sites : {None}, preset : {None},
     country : {None, Some(usa), Some(<<"U", "S", "A">>)}, is_remote : BOOLEAN]

RssjobsArgs ==
    [keywords : OptTexts, location : {None, Some(<<>>), Some(<<"B">>)}, limit : {50, 100}]

Reversed(xs) == [n \in DOMAIN xs |-> xs[Len(xs) + 1 - n]]

\* A call f(name=value, ...) with the keywords in the given order.
KwCall(fn, order, b) == [fn |-> fn, args |-> [n \in DOMAIN order |-> <<order[n], b[order[n]]>>]]

KwCalls ==
    {KwCall("jobspy", o, b) : o \in {JobspyParams, Reversed(JobspyParams)}, b \in JobspyArgs}
    \cup
    {KwCall("rssjobs", o, b) : o \in {RssjobsParams, Reversed(RssjobsParams)}, b \in RssjobsArgs}

\* The value a call binds to parameter `name`.
Arg(c, name) == c.args[CHOOSE n \in DOMAIN c.args : c.args[n][1] = name][2]

IdleKeys ==
    /\ kcalls = <<>>
    /\ kkeys = <<>>

InitKeys ==
    /\ kcalls \in {cs \in KwCalls \X KwCalls : cs[1].fn = cs[2].fn}
    /\ kkeys = <<>>

JobspyKeyOfCall(c) ==
    jobspy_cache_key(Arg(c, "q"), Arg(c, "location"), Arg(c, "days"), Arg(c, "limit"),
                     Arg(c, "sites"), Arg(c, "preset"), Arg(c, "country"),
                     Arg(c, "is_remote"))

RssjobsKeyOfCall(c) ==
    rssjobs_cache_key(Arg(c, "keywords"), Arg(c, "location"), Arg(c, "limit"))

\* Both calls are made: jobspy_cache_key(...)
CallJobspyKey ==
    /\ kkeys = <<>>
    /\ kcalls[1].fn = "jobspy"
    /\ kkeys' = <<JobspyKeyOfCall(kcalls[1]), JobspyKeyOfCall(kcalls[2])>>
    /\ UNCHANGED <<kcalls, scrapeVars, cacheVars, ttlVars, scoreVars, loopVars, extVars>>

\* Both calls are made: rssjobs_cache_key(...)
CallRssjobsKey ==
    /\ kkeys = <<>>
    /\ kcalls[1].fn = "rssjobs"
    /\ kkeys' = <<RssjobsKeyOfCall(kcalls[1]), RssjobsKeyOfCall(kcalls[2])>>
    /\ UNCHANGED <<kcalls, scrapeVars, cacheVars, ttlVars, scoreVars, loopVars, extVars>>

NextKeys == CallJobspyKey \/ CallRssjobsKey

(***************************************************************************)
(* scoring.py: calculate_match_score.  A text is a sequence of words; a    *)
(* keyword is found in a text when its words occur there in a row.         *)
(***************************************************************************)
\* Largest number of years tried for job_yoe_min, job_yoe_max and target_yoe.
MaxYoe == 6

\* Some of the entries of each keyword table.
TIER_1_ROLES == {<<"data", "analyst">>, <<"business", "analyst">>}
TIER_2_ROLES == {<<"data", "scientist">>, <<"ml", "engineer">>}
SKILL_KEYWORDS == {<<"python">>, <<"sql">>}
REMOTE_KEYWORDS == {<<"remote">>, <<"wfh">>}
INDIA_REMOTE_KEYWORDS == {<<"remote", "india">>, <<"work", "from", "india">>}
INDIAN_CITIES == {<<"pune">>, <<"navi", "mumbai">>}

\* str.lower() on a word.
LowerWord(w) ==
    CASE w = "Data" -> "data"
      [] w = "Analyst" -> "analyst"
      [] w = "Scientist" -> "scientist"
      [] w = "Remote" -> "remote"
      [] w = "SQL" -> "sql"
      [] w = "Pune" -> "pune"
      [] OTHER -> w

TextLower(t) == [n \in DOMAIN t |-> LowerWord(t[n])]

\* `kw in text`
Contains(text, kw) ==
    \E i \in 0..(Len(text) - Len(kw)) : SubSeq(text, i + 1, i + Len(kw)) = kw

\* any(kw in text for kw in kws)
AnyIn(kws, text) == \E kw \in kws : Contains(text, kw)

\* Role match (0-40 points)
RolePoints(title_lower, text) ==
    IF AnyIn(TIER_1_ROLES, title_lower) THEN 40
    ELSE IF AnyIn(TIER_2_ROLES, title_lower) THEN 30
    ELSE IF AnyIn(SKILL_KEYWORDS, text) THEN 20
    ELSE 0

\* Location match (0-30 points)
LocationPoints(location_lower) ==
    IF AnyIn(REMOTE_KEYWORDS, location_lower) THEN 30
    ELSE IF AnyIn(INDIA_REMOTE_KEYWORDS, location_lower) THEN 25
    ELSE IF AnyIn(INDIAN_CITIES, location_lower) THEN 20
    ELSE 10

\* Mutation of YoePoints: a target inside the range counts as a close match.
YoePointsClose(job_yoe_min, job_yoe_max, target_yoe) ==
    IF job_yoe_min # None /\ job_yoe_max # None THEN 20 ELSE 15

\* The same without the "Exclude 5+ YOE" branches.
YoePointsNoExclusion(job_yoe_min, job_yoe_max, target_yoe) ==
    IF job_yoe_min # None /\ job_yoe_max # None
    THEN IF job_yoe_min[1] <= target_yoe /\ target_yoe <= job_yoe_max[1] THEN 30
         ELSE IF job_yoe_min[1] <= target_yoe + 1 /\ target_yoe + 1 <= job_yoe_max[1]
              THEN 20
         ELSE 10
    ELSE IF job_yoe_min # None
    THEN IF job_yoe_min[1] <= target_yoe THEN 25 ELSE 0
    ELSE IF job_yoe_max # None
    THEN IF job_yoe_max[1] >= target_yoe THEN 25 ELSE 0
    ELSE 15

\* YOE match (0-30 points)
YoePoints(job_yoe_min, job_yoe_max, target_yoe) ==
    IF job_yoe_min # None \/ job_yoe_max # None
    THEN IF job_yoe_min # None /\ job_yoe_max # None
         THEN IF job_yoe_min[1] <= target_yoe /\ target_yoe <= job_yoe_max[1] THEN 30
              ELSE IF job_yoe_min[1] <= target_yoe + 1 /\ target_yoe + 1 <= job_yoe_max[1]
                   THEN 20
              ELSE IF job_yoe_max[1] >= 5 THEN 0
              ELSE 10
         ELSE IF job_yoe_min # None
         THEN IF job_yoe_min[1] <= target_yoe
              THEN IF job_yoe_min[1] >= 5 THEN 0
                   ELSE IF job_yoe_min[1] <= target_yoe + 1 THEN 25
                   ELSE 10
              ELSE 0
         ELSE IF job_yoe_max[1] >= target_yoe
              THEN IF job_yoe_max[1] >= 5 THEN 0 ELSE 25
              ELSE 0
    ELSE 15

Max(a, b) == IF a >= b THEN a ELSE b
Min(a, b) == IF a <= b THEN a ELSE b

calculate_match_score(title, description, location, yoe_min, yoe_max, target_yoe) ==
    LET text == TextLower(title \o description \o location)
        points == RolePoints(TextLower(title), text)
                      + LocationPoints(TextLower(location))
                      + YoePoints(yoe_min, yoe_max, target_yoe)
    IN  Min(100, Max(0, points))

\* The titles, descriptions and locations tried.
Titles ==
    {<<"Data", "Analyst">>, <<"senior", "business", "analyst">>, <<"Data", "Scientist">>,
     <<"analyst", "data">>, <<>>}
Descriptions == {<<>>, <<"SQL", "and", "python">>}
Locations ==
    {<<"Remote">>, <<"work", "from", "india">>, <<"Pune">>, <<"remote", "india">>,
     <<"berlin">>, <<>>}
OptYears == {None} \cup {Some(n) : n \in 0..MaxYoe}

IdleScore ==
    /\ sinput = <<>>
    /\ score = <<>>
    /\ yoe_points = <<>>

InitScore ==
    /\ sinput \in [job_title : Titles, job_description : Descriptions,
                    job_location : Locations, job_yoe_min : OptYears,
                    job_yoe_max : OptYears, target_yoe : 0..MaxYoe]
    /\ score = <<>>
    /\ yoe_points = <<>>

\* job.match_score = calculate_match_score(...)
ScoreJob ==
    /\ score = <<>>
    /\ score' = Some(calculate_match_score(sinput.job_title, sinput.job_description,
                                            sinput.job_location, sinput.job_yoe_min,
                                            sinput.job_yoe_max, sinput.target_yoe))
    /\ yoe_points' = Some(YoePoints(sinput.job_yoe_min, sinput.job_yoe_max,
                                    sinput.target_yoe))
    /\ UNCHANGED <<sinput, scrapeVars, cacheVars, ttlVars, keyVars, loopVars, extVars>>

NextScore == ScoreJob

(***************************************************************************)
(* main.py and cache.py on the event loop: every /jobspy handler is a      *)
(* coroutine of one asyncio loop.  A coroutine that holds the thread runs  *)
(* statement by statement until it reaches an `await` or returns; only     *)
(* then does the loop start or resume another one.  get_jobspy_cache,      *)
(* TTLCache.get and TTLCache.set contain no `await`.                       *)
(***************************************************************************)
Handlers == 1..NumSlots

NoOp == [kind |-> "none", key |-> <<>>, val |-> <<>>, snap |-> <<>>, t |-> 0,
         ret |-> <<>>, after |-> <<>>]

IdleHandler ==
    [pc |-> "idle", q |-> <<"a">>, skip |-> FALSE, overlapped |-> FALSE, ref |-> 0,
     tnow |-> 0, snap |-> <<>>, entry |-> <<>>, lastop |-> NoOp]

\* No request has arrived.
InitLoop ==
    /\ running = 0
    /\ objs = <<>>
    /\ global_cache = 0
    /\ h = [i \in Handlers |-> IdleHandler]

\* Mutation of MayStep: a coroutine may be started, resumed or continued
\* while another one is between two statements.
MayStepPreempting(i, entering) == TRUE

\* The loop starts or resumes a coroutine only when none holds the thread,
\* and a coroutine executes its next statement only while it holds it.
MayStep(i, entering) == IF entering THEN running = 0 ELSE running = i

frameLoop == <<scrapeVars, cache, req, last, issued, ttlVars, keyVars, scoreVars, extVars>>

\* The payload the scrape of handler i yields.
ScrapeOf(i) == Payload(Take(Catalogue, i))

\* A request arrives and the loop starts its handler: jobspy_jobs runs up to
\* the call of get_jobspy_cache.  `overlapped` notes that another request
\* was in flight (suspended at its scrape) when this one arrived.
Begin(i, q, skip) ==
    /\ h[i].pc = "idle"
    /\ MayStep(i, TRUE)
    /\ running' = i
    /\ h' = [h EXCEPT ![i].pc = "lazy_check", ![i].q = q, ![i].skip = skip,
                      ![i].overlapped =
                          \E j \in Handlers : h[j].pc \in {"scraping", "resumable"}]
    /\ UNCHANGED <<now, objs, global_cache, frameLoop>>

\* get_jobspy_cache: `if _jobspy_cache is None:`
LazyCheck(i) ==
    /\ h[i].pc = "lazy_check"
    /\ MayStep(i, FALSE)
    /\ h' = [h EXCEPT ![i].pc = IF global_cache = 0 THEN "lazy_create" ELSE "lazy_return"]
    /\ UNCHANGED <<now, running, objs, global_cache, frameLoop>>

\* get_jobspy_cache: `_jobspy_cache = TTLCache(ttl_seconds=JOBSPY_CACHE_TTL)`
LazyCreate(i) ==
    /\ h[i].pc = "lazy_create"
    /\ MayStep(i, FALSE)
    /\ objs' = Append(objs, <<>>)
    /\ global_cache' = Len(objs) + 1
    /\ h' = [h EXCEPT ![i].pc = "lazy_return"]
    /\ UNCHANGED <<now, running, frameLoop>>

\* get_jobspy_cache: `return _jobspy_cache`; then `if not skip_cache:` either
\* enters cache.get (its first statement reads the clock) or goes on to
\* `await scrape_jobspy_sources(...)`, which gives the thread back.
LazyReturn(i) ==
    /\ h[i].pc = "lazy_return"
    /\ MayStep(i, FALSE)
    /\ IF h[i].skip
       THEN /\ h' = [h EXCEPT ![i].pc = "scraping", ![i].ref = global_cache]
            /\ running' = 0
       ELSE /\ h' = [h EXCEPT ![i].pc = "get_lookup", ![i].ref = global_cache,
                              ![i].tnow = now, ![i].snap = objs[global_cache]]
            /\ UNCHANGED running
    /\ UNCHANGED <<now, objs, global_cache, frameLoop>>

\* What handler i records when its cache.get returns.
GetDone(i, ret, after) ==
    [kind |-> "get", key |-> KeyOf("jobspy", h[i].q), val |-> <<>>, snap |-> h[i].snap,
     t |-> h[i].tnow, ret |-> ret, after |-> after]

\* TTLCache.get: `if key not in self._store: return None`, else
\* `val, expires = self._store[key]`.
GetLookup(i) ==
    /\ h[i].pc = "get_lookup"
    /\ MayStep(i, FALSE)
    /\ LET st == objs[h[i].ref]
           k == KeyOf("jobspy", h[i].q)
       IN  IF k \notin Keys(st)
           THEN /\ h' = [h EXCEPT ![i].pc = "scraping",
                                  ![i].lastop = GetDone(i, None, st)]
                /\ running' = 0
           ELSE /\ h' = [h EXCEPT ![i].pc = "get_expiry", ![i].entry = st[IndexOf(st, k)]]
                /\ UNCHANGED running
    /\ UNCHANGED <<now, objs, global_cache, frameLoop>>

\* TTLCache.get: `if now >= expires: del self._store[key]; return None`.
\* `del` of a key that is no longer stored raises KeyError.
GetExpiry(i) ==
    /\ h[i].pc = "get_expiry"
    /\ MayStep(i, FALSE)
    /\ LET st == objs[h[i].ref]
           k == KeyOf("jobspy", h[i].q)
       IN  IF Expired(h[i].entry, h[i].tnow)
           THEN IF k \in Keys(st)
                THEN /\ objs' = [objs EXCEPT ![h[i].ref] = Remove(st, k)]
                     /\ h' = [h EXCEPT ![i].pc = "scraping",
                                       ![i].lastop = GetDone(i, None, Remove(st, k))]
                     /\ running' = 0
                ELSE /\ h' = [h EXCEPT ![i].pc = "crashed"]
                     /\ running' = 0
                     /\ UNCHANGED objs
           ELSE /\ h' = [h EXCEPT ![i].pc = "get_move"]
                /\ UNCHANGED <<running, objs>>
    /\ UNCHANGED <<now, global_cache, frameLoop>>

\* TTLCache.get: `self._store.move_to_end(key); return val`, and the handler
\* answers X-Cache: HIT.  move_to_end of a key no longer stored raises.
GetMove(i) ==
    /\ h[i].pc = "get_move"
    /\ MayStep(i, FALSE)
    /\ running' = 0
    /\ LET st == objs[h[i].ref]
           k == KeyOf("jobspy", h[i].q)
       IN  IF k \in Keys(st)
           THEN /\ objs' = [objs EXCEPT ![h[i].ref] = MoveToEnd(st, k)]
                /\ h' = [h EXCEPT ![i].pc = "done",
                                  ![i].lastop = GetDone(i, Some(h[i].entry.val),
                                                        MoveToEnd(st, k))]
           ELSE /\ h' = [h EXCEPT ![i].pc = "crashed"]
                /\ UNCHANGED objs
    /\ UNCHANGED <<now, global_cache, frameLoop>>

\* The scrape (run in a worker thread) finishes: the handler can be resumed.
ScrapeDone(i) ==
    /\ h[i].pc = "scraping"
    /\ h' = [h EXCEPT ![i].pc = "resumable"]
    /\ UNCHANGED <<now, running, objs, global_cache, frameLoop>>

\* The loop resumes the handler: it builds the payload and enters cache.set,
\* whose first statement reads the clock.
Resume(i) ==
    /\ h[i].pc = "resumable"
    /\ MayStep(i, TRUE)
    /\ running' = i
    /\ h' = [h EXCEPT ![i].pc = "set_evict", ![i].tnow = now, ![i].snap = objs[h[i].ref]]
    /\ UNCHANGED <<now, objs, global_cache, frameLoop>>

\* TTLCache.set: one turn of `while len(self._store) >= self.max_entries and
\* self._store: self._store.popitem(last=False)`.
SetEvict(i) ==
    /\ h[i].pc = "set_evict"
    /\ MayStep(i, FALSE)
    /\ LET st == objs[h[i].ref]
       IN  IF Len(st) >= MAX_CACHE_ENTRIES /\ Len(st) > 0
           THEN /\ objs' = [objs EXCEPT ![h[i].ref] = Tail(st)]
                /\ UNCHANGED h
           ELSE /\ h' = [h EXCEPT ![i].pc = "set_assign"]
                /\ UNCHANGED objs
    /\ UNCHANGED <<now, running, global_cache, frameLoop>>

\* TTLCache.set: `self._store[key] = (value, now + self.ttl)`
SetAssign(i) ==
    /\ h[i].pc = "set_assign"
    /\ MayStep(i, FALSE)
    /\ objs' = [objs EXCEPT ![h[i].ref] =
                   Assign(@, KeyOf("jobspy", h[i].q), ScrapeOf(i),
                          h[i].tnow + JOBSPY_CACHE_TTL)]
    /\ h' = [h EXCEPT ![i].pc = "set_move"]
    /\ UNCHANGED <<now, running, global_cache, frameLoop>>

\* TTLCache.set: `self._store.move_to_end(key)`, and the handler answers
\* X-Cache: MISS.
SetMove(i) ==
    /\ h[i].pc = "set_move"
    /\ MayStep(i, FALSE)
    /\ running' = 0
    /\ LET st == objs[h[i].ref]
           k == KeyOf("jobspy", h[i].q)
       IN  IF k \in Keys(st)
           THEN /\ objs' = [objs EXCEPT ![h[i].ref] = MoveToEnd(st, k)]
                /\ h' = [h EXCEPT ![i].pc = "done",
                                  ![i].lastop = [kind |-> "set", key |-> k,
                                                 val |-> Some(ScrapeOf(i)),
                                                 snap |-> h[i].snap, t |-> h[i].tnow,
                                                 ret |-> None,
                                                 after |-> MoveToEnd(st, k)]]
           ELSE /\ h' = [h EXCEPT ![i].pc = "crashed"]
                /\ UNCHANGED objs
    /\ UNCHANGED <<now, global_cache, frameLoop>>

\* Time passes, by one unit of five minutes: between the statements of one
\* coroutine's turn the clock does not reach the next unit.
LoopTick ==
    /\ now < MaxTime
    /\ running = 0
    /\ now' = now + 1
    /\ UNCHANGED <<running, objs, global_cache, h, frameLoop>>

NextLoop ==
    \/ \E i \in Handlers, q \in Queries, skip \in BOOLEAN : Begin(i, q, skip)
    \/ \E i \in Handlers : LazyCheck(i)
    \/ \E i \in Handlers : LazyCreate(i)
    \/ \E i \in Handlers : LazyReturn(i)
    \/ \E i \in Handlers : GetLookup(i)
    \/ \E i \in Handlers : GetExpiry(i)
    \/ \E i \in Handlers : GetMove(i)
    \/ \E i \in Handlers : ScrapeDone(i)
    \/ \E i \in Handlers : Resume(i)
    \/ \E i \in Handlers : SetEvict(i)
    \/ \E i \in Handlers : SetAssign(i)
    \/ \E i \in Handlers : SetMove(i)
    \/ LoopTick

(***************************************************************************)
(* scoring.py on texts taken character by character: extract_yoe,          *)
(* extract_salary_currency, detect_visa_sponsorship and                    *)
(* enhance_job_with_metadata, and the metadata step of scrape_all.         *)
(***************************************************************************)
\* A text is a sequence of characters, one string each; the characters
\* outside ASCII are written by name.
EnDash == "en-dash"
EmDash == "em-dash"
RupeeSign == "rupee-sign"
PoundSign == "pound-sign"
EuroSign == "euro-sign"

\* \d
DIGITS == {"0", "1", "2", "3", "4", "5", "6", "7", "8", "9"}
\* \s
WHITESPACE == {" ", "\t", "\n"}
\* [-–—to]: a class of five characters, the letters t and o among them
SEPARATORS == {"-", EnDash, EmDash, "t", "o"}

DigitValue(c) ==
    CASE c = "0" -> 0 [] c = "1" -> 1 [] c = "2" -> 2 [] c = "3" -> 3 [] c = "4" -> 4
      [] c = "5" -> 5 [] c = "6" -> 6 [] c = "7" -> 7 [] c = "8" -> 8 [] c = "9" -> 9

\* int(match.group(n)) on a run of digits
RECURSIVE int(_)
int(ds) ==
    IF ds = <<>> THEN 0
    ELSE int(SubSeq(ds, 1, Len(ds) - 1)) * 10 + DigitValue(ds[Len(ds)])

\* The parts a pattern is made of.  A repetition is greedy.
Between(set, lo, hi) == [k |-> "chars", set |-> set, lo |-> lo, hi |-> Some(hi)]
OneOrMore(set) == [k |-> "chars", set |-> set, lo |-> 1, hi |-> None]
ZeroOrMore(set) == [k |-> "chars", set |-> set, lo |-> 0, hi |-> None]
Literal(alts) == [k |-> "lit", alts |-> alts]
Optional(parts) == [k |-> "opt", parts |-> parts]
Repeated(parts) == [k |-> "star", parts |-> parts]

StartsAt(t, i, w) == i + Len(w) - 1 <= Len(t) /\ SubSeq(t, i, i + Len(w) - 1) = w

\* Where the longest run of at most `left` characters of `set` from i ends.
RECURSIVE RunEnd(_, _, _, _)
RunEnd(t, i, set, left) ==
    IF left > 0 /\ i <= Len(t) /\ t[i] \in set THEN RunEnd(t, i + 1, set, left - 1) ELSE i

Descending(hi, lo) == [n \in 1..(hi - lo + 1) |-> hi - n + 1]

RECURSIVE Flatten(_)
Flatten(seqs) == IF seqs = <<>> THEN <<>> ELSE Head(seqs) \o Flatten(Tail(seqs))

\* Ends(part, t, i): the positions after a match of one part that starts at
\* i, in the order the backtracking matcher tries them.  AllEnds is the same
\* for a sequence of parts.
RECURSIVE Ends(_, _, _)
RECURSIVE AllEnds(_, _, _)
Ends(part, t, i) ==
    CASE part.k = "chars" ->
             Descending(RunEnd(t, i, part.set, IF part.hi = None THEN Len(t) ELSE part.hi[1]),
                        i + part.lo)
      [] part.k = "lit" ->
             LET hit == SelectSeq(part.alts, LAMBDA w : StartsAt(t, i, w))
             IN  [n \in DOMAIN hit |-> i + Len(hit[n])]
      [] part.k = "opt" -> AllEnds(part.parts, t, i) \o <<i>>
      [] part.k = "star" ->
             LET once == SelectSeq(AllEnds(part.parts, t, i), LAMBDA e : e > i)
             IN  Flatten([n \in DOMAIN once |-> Ends(part, t, once[n])]) \o <<i>>

AllEnds(parts, t, i) ==
    IF parts = <<>> THEN <<i>>
    ELSE LET first == Ends(Head(parts), t, i)
         IN  Flatten([n \in DOMAIN first |-> AllEnds(Tail(parts), t, first[n])])

\* The first match of the whole pattern that starts at i: None, or the
\* positions where it starts and where each of its parts ends.
RECURSIVE MatchFrom(_, _, _)
RECURSIVE FirstOf(_, _, _, _)
MatchFrom(parts, t, i) ==
    IF parts = <<>> THEN Some(<<i>>)
    ELSE FirstOf(Ends(Head(parts), t, i), Tail(parts), t, i)

FirstOf(ends, rest, t, i) ==
    IF ends = <<>> THEN None
    ELSE LET m == MatchFrom(rest, t, Head(ends))
         IN  IF m # None THEN Some(<<i>> \o m[1]) ELSE FirstOf(Tail(ends), rest, t, i)

RECURSIVE SearchFrom(_, _, _)
SearchFrom(parts, t, i) ==
    IF i > Len(t) + 1 THEN None
    ELSE LET m == MatchFrom(parts, t, i)
         IN  IF m # None THEN m ELSE SearchFrom(parts, t, i + 1)

\* re.search(pattern, text): the leftmost match
re_search(parts, t) == SearchFrom(parts, t, 1)

\* The text matched by parts a..b of the pattern.
Group(t, m, a, b) == SubSeq(t, m[1][a], m[1][b + 1] - 1)

\* The words of the patterns, spelled out.
YEARS == <<"y", "e", "a", "r", "s">>
YEAR == <<"y", "e", "a", "r">>
YRS == <<"y", "r", "s">>
YR == <<"y", "r">>
YOE == <<"y", "o", "e">>
EXPERIENCE == <<"e", "x", "p", "e", "r", "i", "e", "n", "c", "e">>
MINIMUM == <<"m", "i", "n", "i", "m", "u", "m">>
MIN == <<"m", "i", "n">>
ATLEAST2 == <<"a", "t", " ", "l", "e", "a", "s", "t">>
ATLEAST1 == <<"a", "t", "l", "e", "a", "s", "t">>
PLUS == <<"+">>

\* (?:years?|yrs?|yoe|experience)
UNIT == Literal(<<YEARS, YEAR, YRS, YR, YOE, EXPERIENCE>>)

\* (\d+)\s*[-–—to]\s*(\d+)
simple_range ==
    <<OneOrMore(DIGITS), ZeroOrMore(WHITESPACE), Between(SEPARATORS, 1, 1),
      ZeroOrMore(WHITESPACE), OneOrMore(DIGITS)>>

\* (\d+)\s*[-–—to]\s*(\d+)\s*(?:years?|yrs?|yoe|experience)
range_pattern == simple_range \o <<ZeroOrMore(WHITESPACE), UNIT>>

\* (?:minimum|min|at least|atleast)\s*(\d+)\s*(?:years?|yrs?|yoe|experience)
min_pattern ==
    <<Literal(<<MINIMUM, MIN, ATLEAST2, ATLEAST1>>), ZeroOrMore(WHITESPACE),
      OneOrMore(DIGITS), ZeroOrMore(WHITESPACE), UNIT>>

\* (\d+)\+\s*(?:years?|yrs?|yoe|experience)
plus_pattern == <<OneOrMore(DIGITS), Literal(<<PLUS>>), ZeroOrMore(WHITESPACE), UNIT>>

\* The same with the minimum pattern tried after the bare range.
extract_yoeBareRangeFirst(text) ==
    LET text_lower == Lower(text)
        ranged == re_search(range_pattern, text_lower)
        least == re_search(min_pattern, text_lower)
        bare == re_search(simple_range, text_lower)
        more == re_search(plus_pattern, text_lower)
    IN  IF ranged # None
        THEN <<Some(int(Group(text_lower, ranged, 1, 1))),
               Some(int(Group(text_lower, ranged, 5, 5)))>>
        ELSE IF bare # None /\ int(Group(text_lower, bare, 1, 1)) <= 10
                            /\ int(Group(text_lower, bare, 5, 5)) <= 10
        THEN <<Some(int(Group(text_lower, bare, 1, 1))),
               Some(int(Group(text_lower, bare, 5, 5)))>>
        ELSE IF least # None
        THEN <<Some(int(Group(text_lower, least, 3, 3))), None>>
        ELSE IF more # None
        THEN <<Some(int(Group(text_lower, more, 1, 1))), None>>
        ELSE <<None, None>>

\* extract_yoe(text) -> (min_yoe, max_yoe)
extract_yoe(text) ==
    LET text_lower == Lower(text)
        ranged == re_search(range_pattern, text_lower)
        least == re_search(min_pattern, text_lower)
        bare == re_search(simple_range, text_lower)
        more == re_search(plus_pattern, text_lower)
    IN  IF ranged # None
        THEN <<Some(int(Group(text_lower, ranged, 1, 1))),
               Some(int(Group(text_lower, ranged, 5, 5)))>>
        ELSE IF least # None
        THEN <<Some(int(Group(text_lower, least, 3, 3))), None>>
        ELSE IF bare # None /\ int(Group(text_lower, bare, 1, 1)) <= 10
                            /\ int(Group(text_lower, bare, 5, 5)) <= 10
        THEN <<Some(int(Group(text_lower, bare, 1, 1))),
               Some(int(Group(text_lower, bare, 5, 5)))>>
        ELSE IF more # None
        THEN <<Some(int(Group(text_lower, more, 1, 1))), None>>
        ELSE <<None, None>>

\* detect_visa_sponsorship(text)
VISA_KEYWORDS ==
    {<<"v", "i", "s", "a", " ", "s", "p", "o", "n", "s", "o", "r", "s", "h", "i", "p">>,
     <<"s", "p", "o", "n", "s", "o", "r", "e", "d", " ", "v", "i", "s", "a">>,
     <<"v", "i", "s", "a", " ", "s", "p", "o", "n", "s", "o", "r">>,
     <<"r", "e", "l", "o", "c", "a", "t", "i", "o", "n", " ", "s", "u", "p", "p", "o", "r", "t">>,
     <<"r", "e", "l", "o", "c", "a", "t", "i", "o", "n", " ", "a", "s", "s", "i", "s", "t", "a", "n", "c", "e">>,
     <<"w", "o", "r", "k", " ", "v", "i", "s", "a">>,
     <<"s", "p", "o", "n", "s", "o", "r", " ", "v", "i", "s", "a">>,
     <<"v", "i", "s", "a", " ", "a", "v", "a", "i", "l", "a", "b", "l", "e">>,
     <<"w", "i", "l", "l", " ", "s", "p", "o", "n", "s", "o", "r">>,
     <<"c", "a", "n", " ", "s", "p", "o", "n", "s", "o", "r">>,
     <<"s", "p", "o", "n", "s", "o", "r", "s", "h", "i", "p", " ", "a", "v", "a", "i", "l", "a", "b", "l", "e">>}

detect_visa_sponsorship(text) == AnyIn(VISA_KEYWORDS, Lower(text))

\* currency_map, in the order the dict is written and iterated
currency_map ==
    <<<<<<"$">>, "USD">>,
      <<<<"u", "s", "d">>, "USD">>,
      <<<<"d", "o", "l", "l", "a", "r">>, "USD">>,
      <<<<RupeeSign>>, "INR">>,
      <<<<"r", "s">>, "INR">>,
      <<<<"i", "n", "r">>, "INR">>,
      <<<<"r", "u", "p", "e", "e">>, "INR">>,
      <<<<"l", "a", "k", "h">>, "INR">>,
      <<<<"l", "p", "a">>, "INR">>,
      <<<<PoundSign>>, "GBP">>,
      <<<<"g", "b", "p">>, "GBP">>,
      <<<<"p", "o", "u", "n", "d">>, "GBP">>,
      <<<<EuroSign>>, "EUR">>,
      <<<<"e", "u", "r">>, "EUR">>,
      <<<<"e", "u", "r", "o">>, "EUR">>,
      <<<<"s", "g", "d">>, "SGD">>,
      <<<<"s", "i", "n", "g", "a", "p", "o", "r", "e">>, "SGD">>,
      <<<<"a", "e", "d">>, "AED">>,
      <<<<"d", "i", "r", "h", "a", "m">>, "AED">>>>

\* The code of the first symbol of currency_map found in the text, or None.
detected_currency(text_lower) ==
    LET hit == SelectSeq(currency_map, LAMBDA e : Contains(text_lower, e[1]))
    IN  IF hit = <<>> THEN None ELSE Some(hit[1][2])

\* (\d+(?:\.\d+)?)
AMOUNT == <<OneOrMore(DIGITS), Optional(<<Literal(<<<<".">>>>), OneOrMore(DIGITS)>>)>>

\* (\d{1,3}(?:,\d{3})*(?:\.\d+)?)
GROUPED_AMOUNT ==
    <<Between(DIGITS, 1, 3), Repeated(<<Literal(<<<<",">>>>), Between(DIGITS, 3, 3)>>),
      Optional(<<Literal(<<<<".">>>>), OneOrMore(DIGITS)>>)>>

\* \s*[-–—to]?\s*
OPTIONAL_SEPARATOR ==
    <<ZeroOrMore(WHITESPACE), Between(SEPARATORS, 0, 1), ZeroOrMore(WHITESPACE)>>

\* (\d+(?:\.\d+)?)\s*k\s*[-–—to]?\s*(\d+(?:\.\d+)?)\s*k, and the same with l
suffixed_pattern(suffix) ==
    AMOUNT \o <<ZeroOrMore(WHITESPACE), Literal(<<suffix>>)>> \o OPTIONAL_SEPARATOR
        \o AMOUNT \o <<ZeroOrMore(WHITESPACE), Literal(<<suffix>>)>>

k_pattern == suffixed_pattern(<<"k">>)
l_pattern == suffixed_pattern(<<"l">>)

\* (\d{1,3}(?:,\d{3})*(?:\.\d+)?)\s*[-–—to]?\s*(\d{1,3}(?:,\d{3})*(?:\.\d+)?)
num_pattern == GROUPED_AMOUNT \o OPTIONAL_SEPARATOR \o GROUPED_AMOUNT

\* str.replace(",", "")
WithoutCommas(t) == SelectSeq(t, LAMBDA c : c # ",")

RECURSIVE Pow10(_)
Pow10(k) == IF k = 0 THEN 1 ELSE 10 * Pow10(k - 1)

\* float(text), kept as the exact decimal n / 10^k it is written as.
float(t) ==
    LET dots == {i \in DOMAIN t : t[i] = "."}
    IN  [n |-> int(SelectSeq(t, LAMBDA c : c # ".")),
         k |-> IF dots = {} THEN 0 ELSE Len(t) - (CHOOSE i \in dots : TRUE)]

Times(v, c) == [n |-> v.n * c, k |-> v.k]
Exceeds(v, c) == v.n > c * Pow10(v.k)

\* extract_salary_currency(text) -> (min_salary, max_salary, currency_code)
extract_salary_currency(text) ==
    LET text_lower == Lower(text)
        detected == detected_currency(text_lower)
        thousands == re_search(k_pattern, text_lower)
        lakhs == re_search(l_pattern, text_lower)
        plain == re_search(num_pattern, text_lower)
        min_val == float(WithoutCommas(Group(text_lower, plain, 1, 3)))
        max_val == float(WithoutCommas(Group(text_lower, plain, 7, 9)))
    IN  IF thousands # None
        THEN <<Some(Times(float(Group(text_lower, thousands, 1, 2)), 1000)),
               Some(Times(float(Group(text_lower, thousands, 8, 9)), 1000)),
               IF detected # None THEN detected ELSE Some("USD")>>
        ELSE IF lakhs # None
        THEN <<Some(Times(float(Group(text_lower, lakhs, 1, 2)), 100000)),
               Some(Times(float(Group(text_lower, lakhs, 8, 9)), 100000)),
               IF detected # None THEN detected ELSE Some("INR")>>
        ELSE IF plain # None /\ Exceeds(min_val, 1000) /\ Exceeds(max_val, 1000)
        THEN <<Some(min_val), Some(max_val), detected>>
        ELSE <<None, None, detected>>

\* enhance_job_with_metadata(job_description, job_location) -> dict
enhance_job_with_metadata(job_description, job_location) ==
    LET text == job_description \o <<" ">> \o job_location
        yoe == extract_yoe(text)
        visa == detect_visa_sponsorship(text)
        salary == extract_salary_currency(text)
    IN  [yoe_min |-> yoe[1], yoe_max |-> yoe[2],
         visa_sponsorship |-> IF visa THEN Some(TRUE) ELSE None,
         salary_min |-> salary[1], salary_max |-> salary[2], currency |-> salary[3]]

\* str(n)
DigitChar(d) ==
    CASE d = 0 -> "0" [] d = 1 -> "1" [] d = 2 -> "2" [] d = 3 -> "3" [] d = 4 -> "4"
      [] d = 5 -> "5" [] d = 6 -> "6" [] d = 7 -> "7" [] d = 8 -> "8" [] d = 9 -> "9"

RECURSIVE str(_)
str(n) == IF n < 10 THEN <<DigitChar(n)>> ELSE str(n \div 10) \o <<DigitChar(n % 10)>>

\* The numbers written into the texts: every small one and three above ten.
Years == (0..MaxYoe) \cup {11, 15, 20}

\* The ways a posting words its experience requirement.
UnitRange(n, m) == str(n) \o <<"-">> \o str(m) \o <<" ", "y", "e", "a", "r", "s", " ", "e", "x", "p", "e", "r", "i", "e", "n", "c", "e", " ", "r", "e", "q", "u", "i", "r", "e", "d">>
WordRange(n, m) == str(n) \o <<" ", "t", "o", " ">> \o str(m) \o <<" ", "y", "e", "a", "r", "s">>
BareRange(n, m) == str(n) \o <<"-">> \o str(m)
DashRange(n, m) == str(n) \o <<" ", EmDash, " ">> \o str(m) \o <<"Y", "O", "E">>
MinThenBare(n, m) == <<"m", "i", "n", " ">> \o str(n) \o <<" ", "y", "r", "s", ",", " ">> \o str(m) \o <<"-">> \o str(m)
PlusThenBare(n, m) == str(n) \o <<"+", " ", "y", "e", "a", "r", "s", ",", " ">> \o str(m) \o <<" ", EnDash, " ">> \o str(n)
Minimum(n) == <<"m", "i", "n", "i", "m", "u", "m", " ">> \o str(n) \o <<" ", "y", "e", "a", "r", "s">>
AtLeast(n) == <<"A", "t", " ", "L", "e", "a", "s", "t", " ">> \o str(n) \o <<" ", "Y", "e", "a", "r", "s", " ", "E", "x", "p", "e", "r", "i", "e", "n", "c", "e">>
Plus(n) == str(n) \o <<"+", " ", "y", "e", "a", "r", "s">>
PlusNoUnit(n) == str(n) \o <<"+">>
NoKeyword(n) == str(n) \o <<" ", "y", "e", "a", "r", "s">>

\* The texts without a number of years to vary: what a posting says of
\* its pay, or nothing of the kind.
OtherTexts ==
    <<<<>>,
      <<"$", "5", "0", "k", "-", "7", "0", "k">>,
      <<"5", "0", "k", "-", "7", "0", "k">>,
      <<"1", "0", "L", "-", "1", "5", "L">>,
      <<RupeeSign, "1", "0", "l", "-", "1", "5", "l">>,
      <<"5", "0", ",", "0", "0", "0", " ", "-", " ", "7", "0", ",", "0", "0", "0", " ", "U", "S", "D">>,
      <<"5", "0", ",", "0", "0", "0", " ", "-", " ", "7", "0", ",", "0", "0", "0">>,
      <<PoundSign, "3", "0", "k", EnDash, "4", "0", "k">>,
      <<"p", "a", "i", "d", " ", "i", "n", " ", "e", "u", "r", "o">>,
      <<"1", ".", "5", "k", " ", "t", "o", " ", "2", ".", "5", "k">>,
      <<"3", "-", "5", " ", "y", "e", "a", "r", "s", " ", "6", "0", "k", "-", "8", "0", "k">>,
      <<"5", "0", "0", "0", "0", "-", "7", "0", "0", "0", "0", " ", "u", "s", "d">>,
      <<"v", "i", "s", "a", " ", "s", "p", "o", "n", "s", "o", "r", "s", "h", "i", "p", ",", " ", "8", " ", "l", "p", "a">>,
      <<"g", "r", "e", "a", "t", " ", "t", "e", "a", "m">>>>

\* Every wording tried, with the numbers it is filled in with.
Wordings ==
    [form : {"UnitRange", "WordRange", "BareRange", "DashRange", "MinThenBare",
             "PlusThenBare"}, n : Years, m : Years]
    \cup [form : {"Minimum", "AtLeast", "Plus", "PlusNoUnit", "NoKeyword"}, n : Years, m : {0}]
    \cup [form : {"Other"}, n : DOMAIN OtherTexts, m : {0}]

TextOf(w) ==
    CASE w.form = "UnitRange" -> UnitRange(w.n, w.m)
      [] w.form = "WordRange" -> WordRange(w.n, w.m)
      [] w.form = "BareRange" -> BareRange(w.n, w.m)
      [] w.form = "DashRange" -> DashRange(w.n, w.m)
      [] w.form = "MinThenBare" -> MinThenBare(w.n, w.m)
      [] w.form = "PlusThenBare" -> PlusThenBare(w.n, w.m)
      [] w.form = "Minimum" -> Minimum(w.n)
      [] w.form = "AtLeast" -> AtLeast(w.n)
      [] w.form = "Plus" -> Plus(w.n)
      [] w.form = "PlusNoUnit" -> PlusNoUnit(w.n)
      [] w.form = "NoKeyword" -> NoKeyword(w.n)
      [] w.form = "Other" -> OtherTexts[w.n]

EnrichLocations == {<<>>, <<"P", "u", "n", "e", ",", " ", "2", "-", "4", " ", "y", "r", "s">>}

\* What an adapter leaves unset in the Job it builds.
UnsetMetadata ==
    [yoe_min |-> None, yoe_max |-> None, visa_sponsorship |-> None,
     salary_min |-> None, salary_max |-> None, currency |-> None]

\* The same with match_score, and the jobs an adapter may build: nothing
\* set, the pay set (as the jobspy adapter does), every field set to a
\* value that is false as a condition, and every field set.
UnsetJob ==
    [yoe_min |-> None, yoe_max |-> None, visa_sponsorship |-> None,
     salary_min |-> None, salary_max |-> None, currency |-> None, match_score |-> None]
AdapterJobs ==
    {UnsetJob,
     [UnsetJob EXCEPT !.salary_min = Some([n |-> 40000, k |-> 0]),
                      !.salary_max = Some([n |-> 45000, k |-> 0]),
                      !.currency = Some("EUR")],
     [yoe_min |-> Some(0), yoe_max |-> Some(0), visa_sponsorship |-> Some(FALSE),
      salary_min |-> Some([n |-> 0, k |-> 0]), salary_max |-> Some([n |-> 0, k |-> 0]),
      currency |-> Some(""), match_score |-> Some(0)],
     [yoe_min |-> Some(1), yoe_max |-> Some(2), visa_sponsorship |-> Some(TRUE),
      salary_min |-> Some([n |-> 40000, k |-> 0]), salary_max |-> Some([n |-> 45000, k |-> 0]),
      currency |-> Some("EUR"), match_score |-> Some(55)]}

\* The title of the job enriched, and the words of a text.
EnrichTitle == <<"Data", "Analyst">>
RECURSIVE Words(_)
Words(t) ==
    LET spaces == {i \in DOMAIN t : t[i] = " "}
        cut == IF spaces = {} THEN Len(t) + 1 ELSE CHOOSE i \in spaces : \A j \in spaces : i <= j
        word == SubSeq(t, 1, cut - 1)
        rest == IF cut >= Len(t) THEN <<>> ELSE Words(SubSeq(t, cut + 1, Len(t)))
    IN  IF t = <<>> THEN <<>>
        ELSE IF word = <<>> THEN rest ELSE <<Concat(word)>> \o rest

NotRun == [scored |-> 0, appended |-> FALSE]

IdleEnrich ==
    /\ ecall = "none"
    /\ eform = <<>>
    /\ edesc = <<>>
    /\ eloc = <<>>
    /\ eout = <<>>
    /\ ejob = UnsetJob
    /\ efails = "none"
    /\ eran = NotRun

\* The wordings tried with the jobs that come with fields set, or with an
\* enrichment that raises.
FewWordings ==
    [form : {"Other"}, n : DOMAIN OtherTexts, m : {0}]
    \cup [form : {"UnitRange"}, n : {3}, m : {2, 5}]

InitEnrich ==
    /\ ecall \in {"extract_yoe", "extract_salary_currency", "enrich"}
    /\ eform \in Wordings
    /\ edesc = TextOf(eform)
    /\ eloc \in IF ecall = "enrich" THEN EnrichLocations ELSE {<<>>}
    /\ eout = <<>>
    /\ ejob \in IF ecall = "enrich" /\ eform \in FewWordings THEN AdapterJobs ELSE {UnsetJob}
    /\ efails \in IF ecall = "enrich" /\ eform \in FewWordings
                  THEN {"none", "metadata", "score"} ELSE {"none"}
    /\ eran = NotRun

frameEnrich == <<ecall, eform, edesc, eloc, ejob, efails, coreVars, adaptVars, jobsVars, fetchVars, lateVars>>

\* extract_yoe(text) called on the text alone
CallExtractYoe ==
    /\ ecall = "extract_yoe" /\ eout = <<>>
    /\ eout' = Some(extract_yoe(edesc))
    /\ UNCHANGED <<eran, frameEnrich>>

\* extract_salary_currency(text) called on the text alone
CallExtractSalary ==
    /\ ecall = "extract_salary_currency" /\ eout = <<>>
    /\ eout' = Some(extract_salary_currency(edesc))
    /\ UNCHANGED <<eran, frameEnrich>>

\* Mutation of FillIfNone: the value found always replaces the field.
FillAlways(current, found) == found

\* `if job.x is None: job.x = metadata.get("x")`
FillIfNone(current, found) == IF current = None THEN found ELSE current

\* The body of scrape_all's loop for one job that passed the url check:
\* inside the try, each field the adapter left unset takes the value
\* enhance_job_with_metadata found and an unset match_score is computed
\* with target_yoe=2; an exception ends the try where it is raised; the
\* job is appended in every case.
FillMetadata ==
    /\ ecall = "enrich" /\ eout = <<>>
    /\ \E job \in {ejob}, metadata \in {enhance_job_with_metadata(edesc, eloc)} :
         \E filled \in {IF efails = "metadata" THEN job
                         ELSE [f \in DOMAIN job |->
                                  IF f = "match_score" THEN job[f]
                                  ELSE FillIfNone(job[f], metadata[f])]} :
           LET scoring == efails # "metadata" /\ job.match_score = None
               computed == calculate_match_score(EnrichTitle, Words(edesc), Words(eloc),
                                                 filled.yoe_min, filled.yoe_max, 2)
           IN  /\ eout' = Some(IF scoring /\ efails = "none"
                               THEN [filled EXCEPT !.match_score = Some(computed)]
                               ELSE filled)
               /\ eran' = [scored |-> IF scoring THEN 1 ELSE 0, appended |-> TRUE]
    /\ UNCHANGED frameEnrich

NextEnrich == CallExtractYoe \/ CallExtractSalary \/ FillMetadata

(***************************************************************************)
(* An adapter's normalisation of raw records into Jobs: the entry loop of  *)
(* scrape_weworkremotely and _run of scrape_jobspy_sources, run by two     *)
(* processes on the same records.                                          *)
(***************************************************************************)
MaxRaw == 2
MaxDays == 2

\* datetime.utcnow(), in days
UtcNow == 20

\* The raw records met: a record holds the title and link as the source gave
\* them ("" when absent), the parsed date, the site, and whether
\* _matches_query accepts its title and summary under the call's query.
RawEntry(title, link, date, matches) ==
    [title |-> title, link |-> link, date |-> date, site |-> "indeed", matches |-> matches]

RawEntries ==
    {RawEntry("Analyst", "https://a/1", Some(UtcNow - 1), TRUE),
     RawEntry("Scientist", "https://a/2", None, TRUE),
     RawEntry("Analyst", "https://a/1", Some(UtcNow - 9), TRUE),
     RawEntry("Analyst", "", Some(UtcNow - 1), TRUE),
     RawEntry("", "https://a/2", None, TRUE),
     RawEntry("Engineer", "not a url", None, TRUE),
     RawEntry("Chef", "https://a/2", Some(UtcNow), FALSE),
     RawEntry("", "", None, TRUE)}

RECURSIVE RawLists(_)
RawLists(n) ==
    IF n = 0 THEN {<<>>}
    ELSE RawLists(n - 1) \cup {Append(rs, r) : rs \in {x \in RawLists(n - 1) : Len(x) = n - 1},
                                               r \in RawEntries}

\* The seeds a process may draw (PYTHONHASHSEED unset: a fresh one per process).
HashSeeds == {1, 2}
Processes == {1, 2}

\* hash(text) of the builtin: a function of the text within one process,
\* salted with the process's seed.
hash(seed, text) == <<"hash", seed, text>>

\* _within_days(dt, max_days): dt >= utcnow() - max_days, and True without a date
within_days(dt, max_days) == dt = None \/ dt[1] >= UtcNow - max_days

\* The urls the job boards give out.
BoardNames == {"indeed", "linkedin", "zip_recruiter", "glassdoor", "google", "bayt",
               "naukri", "bdjobs"}
SharedUrl == "https://a/1"
SiteUrlOf(name, k) == "https://" \o name \o "/" \o ToString(k)
SiteUrls == {SiteUrlOf(name, k) : name \in BoardNames, k \in 1..100}

\* Job(...): pydantic validates url as an HttpUrl and raises on anything
\* else; a str field takes any string, the empty one too.
ValidationError == [raised |-> "ValidationError"]
IsHttpUrl(link) == link \in {"https://a/1", "https://a/2"} \/ link \in SiteUrls
Job(id, title, url, source, date) ==
    IF IsHttpUrl(url)
    THEN [id |-> id, title |-> title, url |-> url, source |-> source, date |-> date]
    ELSE ValidationError

\* One iteration of scrape_weworkremotely's entry loop: <<>> when the entry is
\* skipped, by a `continue` or by the except clause around the body, else
\* <<the Job appended>>.
weworkremotely_entry(entry, days, seed) ==
    IF ~within_days(entry.date, days) THEN <<>>
    ELSE IF ~entry.matches THEN <<>>
    ELSE IF entry.link = "" THEN <<>>
    ELSE LET job == Job(<<"weworkremotely", hash(seed, entry.link)>>, entry.title, entry.link,
                        "weworkremotely", entry.date)
         IN  IF job = ValidationError THEN <<>> ELSE <<job>>

RECURSIVE scrape_weworkremotely(_, _, _)
scrape_weworkremotely(entries, days, seed) ==
    IF entries = <<>> THEN <<>>
    ELSE weworkremotely_entry(Head(entries), days, seed)
             \o scrape_weworkremotely(Tail(entries), days, seed)

\* Mutation of all_records: every record with a url is kept.
all_recordsNoDedup(records, seen) == SelectSeq(records, LAMBDA r : r.link # "")

\* _run, first loop: the records with a url, the first of each url kept.
RECURSIVE all_records(_, _)
all_records(records, seen) ==
    IF records = <<>> THEN <<>>
    ELSE LET r == Head(records)
         IN  IF r.link # "" /\ r.link \notin seen
             THEN <<r>> \o all_records(Tail(records), seen \cup {r.link})
             ELSE all_records(Tail(records), seen)

\* _run, second loop, one record
jobspy_record(r, seed) ==
    IF r.link = "" THEN <<>>
    ELSE LET job == Job(<<"jobspy", r.site, hash(seed, r.link)>>, r.title, r.link,
                        <<"jobspy", r.site>>, r.date)
         IN  IF job = ValidationError THEN <<>> ELSE <<job>>

RECURSIVE jobspy_adapt(_, _)
jobspy_adapt(records, seed) ==
    IF records = <<>> THEN <<>>
    ELSE jobspy_record(Head(records), seed) \o jobspy_adapt(Tail(records), seed)

scrape_jobspy_sources_run(records, seed) == jobspy_adapt(all_records(records, {}), seed)

IdleAdapt ==
    /\ aname = "none"
    /\ araw = <<>>
    /\ adays = 0
    /\ aseed = <<>>
    /\ aout = <<>>

InitAdapt ==
    /\ aname \in {"weworkremotely", "jobspy"}
    /\ araw \in RawLists(MaxRaw)
    /\ adays \in 1..MaxDays
    /\ aseed \in [Processes -> HashSeeds]
    /\ aout = [p \in Processes |-> <<>>]

frameAdapt == <<aname, araw, adays, aseed, coreVars, enrichVars, jobsVars, fetchVars, lateVars>>

\* scrape_weworkremotely(days, query), from the parsed feed on
RunWeWorkRemotely(p) ==
    /\ aname = "weworkremotely" /\ aout[p] = <<>>
    /\ aout' = [aout EXCEPT ![p] = Some(scrape_weworkremotely(araw, adays, aseed[p]))]
    /\ UNCHANGED frameAdapt

\* scrape_jobspy_sources(...)._run(), from the sites' records on
RunJobspy(p) ==
    /\ aname = "jobspy" /\ aout[p] = <<>>
    /\ aout' = [aout EXCEPT ![p] = Some(scrape_jobspy_sources_run(araw, aseed[p]))]
    /\ UNCHANGED frameAdapt

NextAdapt == \E p \in Processes : RunWeWorkRemotely(p) \/ RunJobspy(p)

(***************************************************************************)
(* main.py: /jobs, /jobs/rss and /jobs/grouped-by-currency over the stored *)
(* jobs, and _within_days called on the stored dates.  Dates are days in   *)
(* UTC.                                                                    *)
(***************************************************************************)
MaxStored == 2

StoredJob(url, title, source, date, yoe_min, yoe_max, currency, match_score) ==
    [url |-> url, title |-> title, company |-> <<"Acme">>, location |-> <<"Remote">>,
     description |-> <<"SQL">>, source |-> source, date |-> date, yoe_min |-> yoe_min,
     yoe_max |-> yoe_max, currency |-> currency, match_score |-> match_score]

\* The jobs a refresh may have saved.
StoredJobs ==
    {StoredJob("u1", <<"Data", "Analyst">>, "remoteok", Some(UtcNow), None, None, None, Some(85)),
     StoredJob("u2", <<"Data", "Scientist">>, "remoteok", None, Some(1), Some(3),
               Some(<<"u", "s", "d">>), None),
     StoredJob("u3", <<"senior", "business", "analyst">>, "jobspy_indeed", Some(UtcNow - 2),
               Some(2), None, Some(<<"I", "N", "R">>), Some(60)),
     StoredJob("u4", <<"Data", "Scientist">>, "jobspy_indeed", None, Some(5), None, None, Some(40)),
     StoredJob("u5", <<"Data", "Analyst">>, "remoteok", Some(UtcNow - 40), None, Some(4),
               Some(<<" ">>), Some(85)),
     StoredJob("u6", <<>>, "jobspy_indeed", None, None, None, None, Some(60))}

RECURSIVE StoredLists(_)
StoredLists(n) ==
    IF n = 0 THEN {<<>>}
    ELSE StoredLists(n - 1)
             \cup {Append(js, j) : js \in {x \in StoredLists(n - 1) : Len(x) = n - 1},
                                   j \in StoredJobs}

StoredDistinct(js) == \A a, b \in DOMAIN js : js[a].url = js[b].url => a = b

JobsRequest(op, q, days, limit, source, page, per_page, sort, yoe_min, yoe_max) ==
    [op |-> op, q |-> q, days |-> days, limit |-> limit, source |-> source, page |-> page,
     per_page |-> per_page, sort |-> sort, yoe_min |-> yoe_min, yoe_max |-> yoe_max,
     target_yoe |-> 2]

JobsRequests ==
    {JobsRequest("/jobs", q, days, limit, source, page, per_page, sort, yoe_min, yoe_max) :
        q \in {None, Some(<<"Analyst">>)}, days \in 1..MaxDays, limit \in {1, 2},
        source \in {None, Some("remoteok")}, page \in {None, Some(1), Some(2)},
        per_page \in {None, Some(1)}, sort \in {"date", "relevance", "source"},
        yoe_min \in {None, Some(2)}, yoe_max \in {None, Some(4)}}
    \cup {JobsRequest("/jobs/rss", q, days, limit, source, None, None, "date", None, None) :
        q \in {None, Some(<<"Analyst">>)}, days \in 1..MaxDays, limit \in {1, 2},
        source \in {None, Some("remoteok")}}
    \cup {JobsRequest("/jobs/grouped-by-currency", q, days, 100, source, None, None, "date",
                      yoe_min, yoe_max) :
        q \in {None, Some(<<"Analyst">>)}, days \in 1..MaxDays,
        source \in {None, Some("remoteok")}, yoe_min \in {None, Some(2)},
        yoe_max \in {None, Some(4)}}
    \cup {JobsRequest("_within_days", None, days, 100, None, None, None, "date", None, None) :
        days \in 1..MaxDays}

\* normalize_datetime(dt): None stays None; an aware datetime is brought to UTC
normalize_datetime(dt) == IF dt = None THEN None ELSE Some(dt[1])

\* The date filter of the three endpoints, with a job without a date taken
\* as older than the cutoff.
PassesDateStrict(job, days) ==
    LET job_date_normalized == normalize_datetime(job.date)
    IN  job_date_normalized # None /\ ~(job_date_normalized[1] < UtcNow - days)

\* if job_date_normalized and job_date_normalized < cutoff: continue
PassesDate(job, days) ==
    LET job_date_normalized == normalize_datetime(job.date)
    IN  ~(job_date_normalized # None /\ job_date_normalized[1] < UtcNow - days)

\* if source and job.source != source: continue
PassesSource(job, source) == ~(source # None /\ job.source # source[1])

\* if q_lower: ... if q_lower not in text: continue
PassesQuery(job, q) ==
    q = None
        \/ Contains(TextLower(job.title \o job.company \o job.location \o job.description),
                    TextLower(q[1]))

\* The YOE filter and the default exclusion of 5+ years
PassesYoe(job, yoe_min, yoe_max) ==
    /\ yoe_min # None =>
          /\ ~(job.yoe_max # None /\ job.yoe_max[1] < yoe_min[1])
          /\ ~(job.yoe_min # None /\ job.yoe_min[1] > yoe_min[1])
    /\ yoe_max # None =>
          /\ ~(job.yoe_min # None /\ job.yoe_min[1] > yoe_max[1])
          /\ ~(job.yoe_max # None /\ job.yoe_max[1] > yoe_max[1])
    /\ ~(yoe_max = None /\ job.yoe_min # None /\ job.yoe_min[1] >= 5)
    /\ ~(job.yoe_max # None /\ job.yoe_max[1] >= 5 /\ (yoe_max = None \/ yoe_max[1] < 5))

\* The filter loop, one job: which `continue` it takes, if any.  /jobs/rss
\* has no YOE filter.
Verdict(job, r) ==
    IF ~PassesDate(job, r.days) THEN "date"
    ELSE IF ~PassesSource(job, r.source) THEN "source"
    ELSE IF ~PassesQuery(job, r.q) THEN "query"
    ELSE IF r.op # "/jobs/rss" /\ ~PassesYoe(job, r.yoe_min, r.yoe_max) THEN "yoe"
    ELSE "kept"

\* /jobs: job.match_score computed when it is not set
Scored(job, r) ==
    IF job.match_score # None THEN job
    ELSE [job EXCEPT !.match_score =
              Some(calculate_match_score(job.title, job.description, job.location,
                                         job.yoe_min, job.yoe_max, r.target_yoe))]

\* The sort keys: a missing date counts as datetime.min, a missing score as 0.
DateKey(job) == IF job.date = None THEN 0 - 1 ELSE job.date[1]
SourceRank(source) == IF source = "jobspy_indeed" THEN 1 ELSE 2
SortKey(job, sort) ==
    IF sort = "relevance" THEN <<IF job.match_score = None THEN 0 ELSE job.match_score[1], DateKey(job)>>
    ELSE IF sort = "source" THEN <<SourceRank(job.source), DateKey(job)>>
    ELSE <<0, DateKey(job)>>

KeyLess(a, b) == a[1] < b[1] \/ (a[1] = b[1] /\ a[2] < b[2])

\* list.sort(key=..., reverse=True): descending, equal keys in their old order
RECURSIVE InsertDescending(_, _, _)
InsertDescending(sorted, job, sort) ==
    IF sorted = <<>> THEN <<job>>
    ELSE IF KeyLess(SortKey(Head(sorted), sort), SortKey(job, sort))
         THEN <<job>> \o sorted
         ELSE <<Head(sorted)>> \o InsertDescending(Tail(sorted), job, sort)

RECURSIVE SortDescending(_, _, _)
SortDescending(done, todo, sort) ==
    IF todo = <<>> THEN done
    ELSE SortDescending(InsertDescending(done, Head(todo), sort), Tail(todo), sort)

\* The jobs the filter loop appends to `filtered`.
Filtered(all_jobs, r) == SelectSeq(all_jobs, LAMBDA job : Verdict(job, r) = "kept")

\* filtered[start : start + n]
Slice(xs, start, n) ==
    SubSeq(xs, start + 1, IF start + n < Len(xs) THEN start + n ELSE Len(xs))

\* get_jobs
get_jobs(all_jobs, r) ==
    IF all_jobs = <<>> THEN [ok |-> TRUE, count |-> 0, jobs |-> <<>>, total |-> None]
    ELSE LET scored == [n \in DOMAIN all_jobs |-> Scored(all_jobs[n], r)]
             filtered == SortDescending(<<>>, Filtered(scored, r), r.sort)
             limited == IF r.page # None /\ r.per_page # None
                        THEN Slice(filtered, (r.page[1] - 1) * r.per_page[1], r.per_page[1])
                        ELSE Slice(filtered, 0, r.limit)
         IN  [ok |-> TRUE, count |-> Len(limited), jobs |-> limited,
              total |-> IF r.page # None /\ r.per_page # None
                        THEN Some(Len(filtered)) ELSE None]

\* get_jobs_rss: the items of the feed, by url
get_jobs_rss(all_jobs, r) ==
    IF all_jobs = <<>> THEN [items |-> <<>>]
    ELSE LET limited == Slice(SortDescending(<<>>, Filtered(all_jobs, r), "date"), 0, r.limit)
         IN  [items |-> [n \in DOMAIN limited |-> limited[n].url]]

UpperChar(c) ==
    CASE c = "a" -> "A"
      [] c = "b" -> "B"
      [] c = "c" -> "C"
      [] c = "d" -> "D"
      [] c = "e" -> "E"
      [] c = "f" -> "F"
      [] c = "g" -> "G"
      [] c = "h" -> "H"
      [] c = "i" -> "I"
      [] c = "j" -> "J"
      [] c = "k" -> "K"
      [] c = "l" -> "L"
      [] c = "m" -> "M"
      [] c = "n" -> "N"
      [] c = "o" -> "O"
      [] c = "p" -> "P"
      [] c = "q" -> "Q"
      [] c = "r" -> "R"
      [] c = "s" -> "S"
      [] c = "t" -> "T"
      [] c = "u" -> "U"
      [] c = "v" -> "V"
      [] c = "w" -> "W"
      [] c = "x" -> "X"
      [] c = "y" -> "Y"
      [] c = "z" -> "Z"
      [] OTHER -> c

\* str.upper()
Upper(t) == [n \in DOMAIN t |-> UpperChar(t[n])]

\* (job.currency or "unknown").strip().upper() or "unknown"
unknown == <<"u", "n", "k", "n", "o", "w", "n">>
CurrencyGroup(job) ==
    LET curr == Upper(Strip(IF job.currency = None \/ job.currency = Some(<<>>)
                            THEN unknown ELSE job.currency[1]))
    IN  IF curr = <<>> THEN unknown ELSE curr

\* get_jobs_grouped_by_currency
get_jobs_grouped_by_currency(all_jobs, r) ==
    LET filtered == IF all_jobs = <<>> THEN <<>> ELSE Filtered(all_jobs, r)
        groups == {CurrencyGroup(filtered[n]) : n \in DOMAIN filtered}
    IN  [ok |-> TRUE,
         currencies |-> [g \in groups |-> SelectSeq(filtered, LAMBDA job : CurrencyGroup(job) = g)]]

IdleJobs ==
    /\ jstore = <<>>
    /\ jreq = <<>>
    /\ jverdict = <<>>
    /\ jresp = <<>>

InitJobs ==
    /\ jstore \in {js \in StoredLists(MaxStored) : StoredDistinct(js)}
    /\ jreq \in JobsRequests
    /\ jverdict = <<>>
    /\ jresp = <<>>

frameJobs == <<jstore, jreq, coreVars, enrichVars, adaptVars, fetchVars, lateVars>>

\* GET /jobs
GetJobs ==
    /\ jreq.op = "/jobs" /\ jresp = <<>>
    /\ jverdict' = [n \in DOMAIN jstore |-> Verdict(jstore[n], jreq)]
    /\ jresp' = Some(get_jobs(jstore, jreq))
    /\ UNCHANGED frameJobs

\* GET /jobs/rss
GetJobsRss ==
    /\ jreq.op = "/jobs/rss" /\ jresp = <<>>
    /\ jverdict' = [n \in DOMAIN jstore |-> Verdict(jstore[n], jreq)]
    /\ jresp' = Some(get_jobs_rss(jstore, jreq))
    /\ UNCHANGED frameJobs

\* GET /jobs/grouped-by-currency
GetJobsGroupedByCurrency ==
    /\ jreq.op = "/jobs/grouped-by-currency" /\ jresp = <<>>
    /\ jverdict' = [n \in DOMAIN jstore |-> Verdict(jstore[n], jreq)]
    /\ jresp' = Some(get_jobs_grouped_by_currency(jstore, jreq))
    /\ UNCHANGED frameJobs

\* _within_days(dt, max_days) on the date of each stored job
CallWithinDays ==
    /\ jreq.op = "_within_days" /\ jresp = <<>>
    /\ jverdict' = [n \in DOMAIN jstore |-> within_days(jstore[n].date, jreq.days)]
    /\ jresp' = Some(jverdict')
    /\ UNCHANGED frameJobs

NextJobs == GetJobs \/ GetJobsRss \/ GetJobsGroupedByCurrency \/ CallWithinDays

(***************************************************************************)
(* scraper.py: fetch_text(client, url, timeout, retries), one call.  The   *)
(* call suspends at `await client.get(...)` and at `await asyncio.sleep`.  *)
(***************************************************************************)
MaxRetries == 2

\* What one client.get can produce: a response with a status code and a
\* text, httpx.TimeoutException, or another exception.
StatusCodes == {200, 404, 429, 500, 503, 504}
Bodies == {"", "<rss/>"}
Response(code, text) == [kind |-> "response", status_code |-> code, text |-> text]
TimeoutException == [kind |-> "TimeoutException", status_code |-> 0, text |-> ""]
OtherException == [kind |-> "Exception", status_code |-> 0, text |-> ""]

\* How the call ends: `return text`, or an exception leaving it.
Returns(text) == [kind |-> "return", text |-> text]
RaisesOut(e) == [kind |-> "raise", text |-> e.kind]

\* Mutation of IsRetryStatus: every status other than 200 is retried.
IsRetryStatusAny(code) == code # 200

\* `resp.status_code in [429, 503, 504]`
IsRetryStatus(code) == code \in {429, 503, 504}

IdleFetch ==
    /\ retries = 0
    /\ attempt = 0
    /\ fpc = "idle"
    /\ history = <<>>
    /\ wait_time = <<>>
    /\ fout = <<>>

\* The call enters the loop: range(retries + 1) is empty for retries < 0 and
\* the function falls through to its last `return ""`.
InitFetch ==
    /\ retries \in (-1)..MaxRetries
    /\ attempt = 0
    /\ history = <<>>
    /\ wait_time = <<>>
    /\ IF retries + 1 > 0
       THEN fpc = "get" /\ fout = <<>>
       ELSE fpc = "left" /\ fout = Some(Returns(""))

frameFetch == <<retries, coreVars, enrichVars, adaptVars, jobsVars, lateVars>>

\* `return ...` out of the loop.
Return(text) ==
    /\ fout' = Some(Returns(text))
    /\ fpc' = "left"
    /\ wait_time' = <<>>
    /\ UNCHANGED attempt

\* `await asyncio.sleep(seconds)` followed by `continue`.
SleepThenContinue(seconds) ==
    /\ wait_time' = Some(seconds)
    /\ fpc' = "sleep"
    /\ UNCHANGED <<attempt, fout>>

\* client.get returns a response.
GetResponds(code, text) ==
    /\ fpc = "get"
    /\ history' = Append(history, Response(code, text))
    /\ IF code = 200
       THEN Return(text)
       ELSE IF IsRetryStatus(code) /\ attempt < retries
            THEN SleepThenContinue((attempt + 1) * 2)
            ELSE Return("")
    /\ UNCHANGED frameFetch

\* client.get raises httpx.TimeoutException.
GetTimesOut ==
    /\ fpc = "get"
    /\ history' = Append(history, TimeoutException)
    /\ IF attempt < retries THEN SleepThenContinue(1) ELSE Return("")
    /\ UNCHANGED frameFetch

\* client.get (or reading the response) raises another Exception.
GetFails ==
    /\ fpc = "get"
    /\ history' = Append(history, OtherException)
    /\ IF attempt < retries THEN SleepThenContinue(1) ELSE Return("")
    /\ UNCHANGED frameFetch

\* asyncio.sleep returns and the loop takes its next value, or is exhausted
\* and the function reaches its last `return ""`.
SleepEnds ==
    /\ fpc = "sleep"
    /\ attempt' = attempt + 1
    /\ wait_time' = <<>>
    /\ IF attempt + 1 < retries + 1
       THEN fpc' = "get" /\ UNCHANGED fout
       ELSE fpc' = "left" /\ fout' = Some(Returns(""))
    /\ UNCHANGED <<history, frameFetch>>

NextFetch ==
    \/ \E code \in StatusCodes, text \in Bodies : GetResponds(code, text)
    \/ GetTimesOut
    \/ GetFails
    \/ SleepEnds

(***************************************************************************)
(* scraper.py: _retry_headless_operation(operation, max_retries, delay),   *)
(* one call.  It suspends at `await operation()` and `await asyncio.sleep`.*)
(***************************************************************************)
earlyVars == <<coreVars, enrichVars, adaptVars, jobsVars, fetchVars>>

MaxHeadlessRetries == 2

\* The delays tried, in seconds, the values an operation can return and
\* the exceptions it can raise.
Delays == {1, 2, 3}
OperationValues == {"page", "html"}
OperationErrors == {"TimeoutError", "Error"}

OperationResult(v) == [kind |-> "return", value |-> v]
OperationError(e) == [kind |-> "raise", value |-> e]

RECURSIVE Pow2(_)
Pow2(n) == IF n = 0 THEN 1 ELSE 2 * Pow2(n - 1)

\* Mutation of BackoffWait: the wait of fetch_text's 429 branch.
BackoffWaitLinear(d, a) == d * ((a + 1) * 2)

\* `wait_time = delay * (2 ** attempt)`
BackoffWait(d, a) == d * Pow2(a)

IdleRetry ==
    /\ max_retries = 0
    /\ delay = 0
    /\ rattempt = 0
    /\ rpc = "idle"
    /\ rcalls = <<>>
    /\ rwaits = <<>>
    /\ rout = <<>>

\* The call enters the loop; with max_retries < 0 the range is empty and
\* the function reaches `return None`.
InitRetry ==
    /\ max_retries \in (-1)..MaxHeadlessRetries
    /\ delay \in Delays
    /\ rattempt = 0
    /\ rcalls = <<>>
    /\ rwaits = <<>>
    /\ IF max_retries + 1 > 0
       THEN rpc = "call" /\ rout = <<>>
       ELSE rpc = "left" /\ rout = Some(OperationResult("None"))

frameRetry == <<max_retries, delay, earlyVars, jobspyVars, refreshVars, collectVars>>

\* `return await operation()`: the operation returned v.
OperationReturns(v) ==
    /\ rpc = "call"
    /\ rcalls' = Append(rcalls, OperationResult(v))
    /\ rout' = Some(OperationResult(v))
    /\ rpc' = "left"
    /\ UNCHANGED <<rattempt, rwaits, frameRetry>>

\* The operation raised e: sleep and retry while attempt < max_retries,
\* else the bare `raise`.
OperationRaises(e) ==
    /\ rpc = "call"
    /\ rcalls' = Append(rcalls, OperationError(e))
    /\ IF rattempt < max_retries
       THEN /\ rwaits' = Append(rwaits, BackoffWait(delay, rattempt))
            /\ rpc' = "sleep"
            /\ UNCHANGED rout
       ELSE /\ rout' = Some(OperationError(e))
            /\ rpc' = "left"
            /\ UNCHANGED rwaits
    /\ UNCHANGED <<rattempt, frameRetry>>

\* asyncio.sleep returns and `continue` takes the next value of the range,
\* or the range is exhausted and the function reaches `return None`.
RetrySleepEnds ==
    /\ rpc = "sleep"
    /\ rattempt' = rattempt + 1
    /\ IF rattempt + 1 < max_retries + 1
       THEN rpc' = "call" /\ UNCHANGED rout
       ELSE rpc' = "left" /\ rout' = Some(OperationResult("None"))
    /\ UNCHANGED <<rcalls, rwaits, frameRetry>>

NextRetry ==
    \/ \E v \in OperationValues : OperationReturns(v)
    \/ \E e \in OperationErrors : OperationRaises(e)
    \/ RetrySleepEnds

(***************************************************************************)
(* jobspy_integration.py: resolve_jobspy_sites and scrape_jobspy_sources,  *)
(* and main.py's two endpoints with a limit parameter, from the site list  *)
(* (or the fetched feed) on.                                               *)
(***************************************************************************)
indeed == <<"i", "n", "d", "e", "e", "d">>
linkedin == <<"l", "i", "n", "k", "e", "d", "i", "n">>
zip_recruiter == <<"z", "i", "p", "_", "r", "e", "c", "r", "u", "i", "t", "e", "r">>
glassdoor == <<"g", "l", "a", "s", "s", "d", "o", "o", "r">>
google == <<"g", "o", "o", "g", "l", "e">>
bayt == <<"b", "a", "y", "t">>
naukri == <<"n", "a", "u", "k", "r", "i">>
bdjobs == <<"b", "d", "j", "o", "b", "s">>
popular == <<"p", "o", "p", "u", "l", "a", "r">>
remote == <<"r", "e", "m", "o", "t", "e">>
all_ == <<"a", "l", "l">>

JOBSPY_SUPPORTED_SITES ==
    <<indeed, linkedin, zip_recruiter, glassdoor, google, bayt, naukri, bdjobs>>
JOBSPY_PRESET_POPULAR == <<indeed, linkedin, zip_recruiter, google, glassdoor>>
JOBSPY_PRESET_REMOTE == <<indeed, linkedin, zip_recruiter, google, glassdoor>>
JOBSPY_ALL_BOARDS == JOBSPY_SUPPORTED_SITES

\* `s and s.strip() and s.strip().lower() in supported`
IsSupportedName(name) ==
    name # <<>> /\ Strip(name) # <<>> /\ Lower(Strip(name)) \in Range(JOBSPY_SUPPORTED_SITES)

\* Mutation of resolve_jobspy_sites: a known preset wins over the sites list.
resolve_jobspy_sitesPresetFirst(sites, preset_name) ==
    LET p == IF preset_name = None THEN <<>> ELSE Lower(Strip(preset_name[1]))
        kept == IF sites = None THEN <<>> ELSE SelectSeq(sites[1], IsSupportedName)
        resolved == [n \in DOMAIN kept |-> Lower(Strip(kept[n]))]
    IN  IF p = popular THEN JOBSPY_PRESET_POPULAR
        ELSE IF p = remote THEN JOBSPY_PRESET_REMOTE
        ELSE IF p = all_ THEN JOBSPY_ALL_BOARDS
        ELSE IF resolved # <<>> THEN resolved
        ELSE JOBSPY_PRESET_POPULAR

resolve_jobspy_sites(sites, preset_name) ==
    IF sites # None /\ sites[1] # <<>>
    THEN LET kept == SelectSeq(sites[1], IsSupportedName)
             resolved == [n \in DOMAIN kept |-> Lower(Strip(kept[n]))]
         IN  IF resolved # <<>> THEN resolved ELSE JOBSPY_PRESET_POPULAR
    ELSE IF preset_name # None /\ preset_name[1] # <<>>
    THEN LET p == Lower(Strip(preset_name[1]))
         IN  IF p = popular THEN JOBSPY_PRESET_POPULAR
             ELSE IF p = remote THEN JOBSPY_PRESET_REMOTE
             ELSE IF p = all_ THEN JOBSPY_ALL_BOARDS
             ELSE JOBSPY_PRESET_POPULAR
    ELSE JOBSPY_PRESET_POPULAR

\* The names and presets a caller may pass, as written.
SpacedIndeed == <<" ", "I", "n", "d", "e", "e", "d", " ">>
UpperNaukri == <<"N", "A", "U", "K", "R", "I">>
monster == <<"m", "o", "n", "s", "t", "e", "r">>
Blank == <<" ", " ">>
SpacedRemote == <<" ", "R", "e", "m", "o", "t", "e", " ">>
UpperAll == <<"A", "L", "L">>
bogus == <<"b", "o", "g", "u", "s">>

MaxSites == 2

RawSiteNames == {indeed, SpacedIndeed, linkedin, UpperNaukri, bdjobs, monster, Blank, <<>>}
RawPresets == {None, Some(<<>>), Some(popular), Some(SpacedRemote), Some(UpperAll), Some(bogus)}

RECURSIVE SiteLists(_)
SiteLists(n) ==
    IF n = 0 THEN {<<>>}
    ELSE SiteLists(n - 1) \cup {Append(l, x) : l \in {y \in SiteLists(n - 1) : Len(y) = n - 1},
                                                x \in RawSiteNames}

NoSiteOutcomes == [x \in {} |-> "none"]

IdleJobspy ==
    /\ gcall = "none"
    /\ gsites = <<>>
    /\ gpreset = <<>>
    /\ glimit = 0
    /\ site_does = NoSiteOutcomes
    /\ gfeed = <<>>
    /\ gout = <<>>

InitResolve ==
    /\ gcall = "resolve_jobspy_sites"
    /\ gsites \in {None} \cup {Some(l) : l \in SiteLists(MaxSites)}
    /\ gpreset \in RawPresets
    /\ glimit = 0
    /\ site_does = NoSiteOutcomes
    /\ gfeed = <<>>
    /\ gout = <<>>

\* What jobspy's scrape_jobs does for one site: it raises, finds nothing,
\* finds one job that other boards list too, or finds as many jobs as were
\* asked for (the first of them listed by other boards too, or not).
SiteOutcomes == {"raises", "empty", "shared", "full", "full_shared"}

SiteRecord(name, url) ==
    [title |-> "Analyst", link |-> url, date |-> None, site |-> name, matches |-> TRUE]

\* jobspy_scrape_jobs(site_name=[s], results_wanted=wanted, ...) and
\* df.to_dict(orient="records")
jobspy_scrape_jobs(site, wanted, does) ==
    LET name == Concat(site)
        own == [k \in 1..wanted |-> SiteRecord(name, SiteUrlOf(name, k))]
    IN  CASE does = "raises" -> [raised |-> TRUE, records |-> <<>>]
          [] does = "empty" -> [raised |-> FALSE, records |-> <<>>]
          [] does = "shared" -> [raised |-> FALSE, records |-> <<SiteRecord(name, SharedUrl)>>]
          [] does = "full" -> [raised |-> FALSE, records |-> own]
          [] does = "full_shared" ->
                [raised |-> FALSE,
                 records |-> [own EXCEPT ![1] = SiteRecord(name, SharedUrl)]]

\* _scrape_one_site(s): the records, or [] when the scrape raised.
scrape_one_site(site, wanted, does) ==
    LET df == jobspy_scrape_jobs(site, wanted, does)
    IN  IF df.raised THEN <<>> ELSE df.records

\* `wanted_per_site = max(10, min(results_wanted // max(1, len(sites)), 100))`
wanted_per_site(results_wanted, sites) ==
    Max(10, Min(results_wanted \div Max(1, Len(sites)), 100))

\* scrape_jobspy_sources(results_wanted=..., site_name=..., preset=...) in a
\* process whose str hashes are salted with seed.
scrape_jobspy_sources(results_wanted, site_name, preset_name, does, seed) ==
    LET sites == resolve_jobspy_sites(site_name, preset_name)
        wanted == wanted_per_site(results_wanted, sites)
        records == Flatten([n \in DOMAIN sites |->
                               scrape_one_site(sites[n], wanted, does[sites[n]])])
    IN  scrape_jobspy_sources_run(records, seed)

\* One entry of the rssjobs.app feed: whether the loop body keeps it (it has
\* a title and a link, is not older than the cutoff and makes a valid Job).
FeedEntry(k, kept) == [link |-> SiteUrlOf("rssjobs", k), kept |-> kept]
Feed(n, gap) == [k \in 1..n |-> FeedEntry(k, gap = 0 \/ k % gap # 0)]
Feeds == {Feed(n, gap) : n \in {0, 3, 12}, gap \in {0, 3}}

\* The loop of rssjobs_proxy over `feed.entries[:limit]`.
rssjobs_entries(entries, limit) == SelectSeq(Take(entries, limit), LAMBDA e : e.kept)

\* limit: Query(100, ge=1, le=400); the values tried
Limits == {1, 10, 30}

InitJobspyJobs ==
    /\ gcall = "jobspy_jobs"
    /\ gsites \in {None, Some(<<naukri>>), Some(<<indeed, linkedin>>),
                    Some(<<linkedin, SpacedIndeed, monster>>),
                    Some(<<naukri, indeed, linkedin>>)}
    /\ gpreset \in {None, Some(SpacedRemote)}
    /\ glimit \in Limits
    /\ site_does \in {[site \in Range(JOBSPY_SUPPORTED_SITES) |->
                          CASE site = indeed -> a
                            [] site = linkedin -> b
                            [] site = naukri -> c
                            [] OTHER -> "full"] :
                        a \in SiteOutcomes, b \in SiteOutcomes, c \in {"full", "raises"}}
    /\ gfeed = <<>>
    /\ gout = <<>>

InitRssjobsProxy ==
    /\ gcall = "rssjobs_proxy"
    /\ gsites = <<>>
    /\ gpreset = <<>>
    /\ glimit \in Limits
    /\ site_does = NoSiteOutcomes
    /\ gfeed \in Feeds
    /\ gout = <<>>

InitJobspy == InitResolve \/ InitJobspyJobs \/ InitRssjobsProxy

frameJobspy == <<gcall, gsites, gpreset, glimit, site_does, gfeed, earlyVars, retryVars,
                refreshVars, collectVars>>

\* resolve_jobspy_sites(sites, preset) called on its own
CallResolveJobspySites ==
    /\ gcall = "resolve_jobspy_sites" /\ gout = <<>>
    /\ gout' = Some(resolve_jobspy_sites(gsites, gpreset))
    /\ UNCHANGED frameJobspy

\* GET /jobspy past the cache lookup: the scrape and the response built
\* from its jobs.
CallJobspyJobs ==
    /\ gcall = "jobspy_jobs" /\ gout = <<>>
    /\ \E found \in {scrape_jobspy_sources(glimit, gsites, gpreset, site_does, 1)} :
           gout' = Some(JobsResponse(found))
    /\ UNCHANGED frameJobspy

\* GET /rssjobs past the fetch: the entry loop and the response.
CallRssjobsProxy ==
    /\ gcall = "rssjobs_proxy" /\ gout = <<>>
    /\ gout' = Some(JobsResponse(rssjobs_entries(gfeed, glimit)))
    /\ UNCHANGED frameJobspy

NextJobspy == CallResolveJobspySites \/ CallJobspyJobs \/ CallRssjobsProxy

(***************************************************************************)
(* main.py: refresh_jobs, and storage.py: save_jobs and load_jobs.  A      *)
(* handler suspends at `await scrape_all(...)`; from its resumption to its *)
(* response it runs without suspension.                                    *)
(***************************************************************************)
NumRefresh == 2

RefreshHandlers == 1..NumRefresh

\* The lists a scrape_all call may return.
ScrapedJob(url, title) == [url |-> url, title |-> title]
ScrapeResults ==
    {<<>>,
     <<ScrapedJob("u1", "Analyst")>>,
     <<ScrapedJob("u2", "Engineer"), ScrapedJob("u1", "Analyst")>>,
     <<ScrapedJob("u1", "Analyst"), ScrapedJob("u2", "Engineer")>>}

\* j.model_dump(mode="json") and json.dumps: the item written for a job, and
\* Job(**item) on the item read back.
model_dump(job) == [item |-> "job", url |-> job.url, title |-> job.title]
JobFromItem(item) == ScrapedJob(item.url, item.title)

\* Mutation of save_jobs: an empty list leaves the file as it is.
save_jobsUnlessEmpty(js) ==
    IF js = <<>> THEN data_file ELSE [jobs |-> [n \in DOMAIN js |-> model_dump(js[n])]]

\* save_jobs(jobs): DATA_FILE.write_text(...) replaces the file's content.
save_jobs(js) == [jobs |-> [n \in DOMAIN js |-> model_dump(js[n])]]

\* load_jobs(): the jobs of the file, in the file's order.
load_jobs(file) == [n \in DOMAIN file.jobs |-> JobFromItem(file.jobs[n])]

IdleRefresh ==
    /\ data_file = [jobs |-> <<>>]
    /\ rprev = <<>>
    /\ rh = <<>>
    /\ rlog = <<>>

InitRefresh ==
    /\ rprev \in {<<>>, <<ScrapedJob("u9", "Clerk"), ScrapedJob("u1", "Analyst")>>}
    /\ data_file = [jobs |-> [n \in DOMAIN rprev |-> model_dump(rprev[n])]]
    /\ rh = [r \in RefreshHandlers |-> [pc |-> "idle", jobs |-> <<>>]]
    /\ rlog = <<>>

frameRefresh == <<rprev, earlyVars, retryVars, jobspyVars, collectVars>>

\* POST /refresh arrives: the handler runs up to `await scrape_all(...)`.
RefreshStarts(r) ==
    /\ rh[r].pc = "idle"
    /\ rh' = [rh EXCEPT ![r].pc = "scraping"]
    /\ rlog' = Append(rlog, <<"start", r>>)
    /\ UNCHANGED <<data_file, frameRefresh>>

\* scrape_all returns js to handler r: save_jobs(jobs), then the response.
RefreshCompletes(r, js) ==
    /\ rh[r].pc = "scraping"
    /\ data_file' = save_jobs(js)
    /\ rh' = [rh EXCEPT ![r] = [pc |-> "done", jobs |-> js]]
    /\ rlog' = Append(rlog, <<"finish", r>>)
    /\ UNCHANGED frameRefresh

NextRefresh ==
    \/ \E r \in RefreshHandlers : RefreshStarts(r)
    \/ \E r \in RefreshHandlers, js \in ScrapeResults : RefreshCompletes(r, js)

(***************************************************************************)
(* scraper.py: the collection loop of a headless adapter.  scrape_linkedin *)
(* and scrape_hirist scroll one page; scrape_indeed_headless and the other *)
(* adapters follow the "next" link.  A card of the page is its job url, or *)
(* NoLink for a card without a job link.                                   *)
(***************************************************************************)
MaxResults == 3

max_scrolls == 10
max_pages == 10

NoLink == "nolink"

\* The cards the page may show when it is read.
Views ==
    {<<>>, <<NoLink>>, <<"l1">>, <<"l1", "l1", "l2">>, <<"l2", NoLink, "l3">>,
     <<"l1", "l2", "l3">>, <<"l4", "l3">>}

RawItem(url) == [url |-> url, title |-> "Analyst"]

UrlsOf(items) == {items[n].url : n \in DOMAIN items}

\* page.evaluate(...): the script walks the cards, skips a card without a
\* link and a url it already pushed, and stops at max_results items.
RECURSIVE ExtractCards(_, _, _)
ExtractCards(pushed, cards, limit) ==
    IF cards = <<>> THEN pushed
    ELSE IF Head(cards) = NoLink \/ Head(cards) \in UrlsOf(pushed)
         THEN ExtractCards(pushed, Tail(cards), limit)
         ELSE IF Len(pushed) + 1 >= limit
              THEN Append(pushed, RawItem(Head(cards)))
              ELSE ExtractCards(Append(pushed, RawItem(Head(cards))), Tail(cards), limit)

\* Mutation of AddNewJobs: seen_urls is not consulted.
RECURSIVE AddNewJobsUnchecked(_, _, _)
AddNewJobsUnchecked(data, found, limit) ==
    IF found = <<>> THEN data
    ELSE IF Len(data) + 1 >= limit
         THEN Append(data, Head(found))
         ELSE AddNewJobsUnchecked(Append(data, Head(found)), Tail(found), limit)

\* for job in new_jobs: if job['url'] not in seen_urls: append, add, and
\* break once len(jobs_data) >= max_results.  seen_urls is the urls of data.
RECURSIVE AddNewJobs(_, _, _)
AddNewJobs(data, found, limit) ==
    IF found = <<>> THEN data
    ELSE IF Head(found).url \in UrlsOf(data)
         THEN AddNewJobs(data, Tail(found), limit)
         ELSE IF Len(data) + 1 >= limit
              THEN Append(data, Head(found))
              ELSE AddNewJobs(Append(data, Head(found)), Tail(found), limit)

\* while len(jobs_data) < max_results and <counter> < <10>
LoopCondition(data, limit, counter, most) == Len(data) < limit /\ counter < most

IdleCollect ==
    /\ loop_kind = "none"
    /\ max_results = 0
    /\ jobs_data = <<>>
    /\ seen_urls = {}
    /\ scroll_attempts = 0
    /\ page_num = 0
    /\ new_jobs = <<>>
    /\ next_button = "none"
    /\ iterations = 0
    /\ lpc = "idle"

\* The page is open; jobs_data = [], seen_urls = set(), the counter is 0.
InitCollect ==
    /\ loop_kind \in {"scroll", "page"}
    /\ max_results \in 1..MaxResults
    /\ jobs_data = <<>>
    /\ seen_urls = {}
    /\ scroll_attempts = 0
    /\ page_num = 0
    /\ new_jobs = <<>>
    /\ next_button = "none"
    /\ iterations = 0
    /\ lpc = "loop"

frameCollect == <<loop_kind, max_results, earlyVars, retryVars, jobspyVars, refreshVars>>

\* One pass of a scroll loop: scroll, sleep, extract, add, count, and break
\* when the extraction was empty; then the loop condition.
ScrollIteration(cards) ==
    /\ lpc = "loop" /\ loop_kind = "scroll"
    /\ \E found \in {ExtractCards(<<>>, cards, max_results)} :
       \E data \in {AddNewJobs(jobs_data, found, max_results)} :
          /\ new_jobs' = found
          /\ jobs_data' = data
          /\ seen_urls' = UrlsOf(data)
          /\ scroll_attempts' = scroll_attempts + 1
          /\ lpc' = IF Len(found) = 0
                        \/ ~LoopCondition(data, max_results, scroll_attempts + 1, max_scrolls)
                    THEN "closed" ELSE "loop"
    /\ iterations' = iterations + 1
    /\ UNCHANGED <<page_num, next_button, frameCollect>>

\* One pass of a page loop: scroll, sleep, extract, add, then the next
\* button: clicked when it is there and more is wanted, else break; a
\* failing query, click or wait breaks too.
PageIteration(cards, nxt) ==
    /\ lpc = "loop" /\ loop_kind = "page"
    /\ \E found \in {ExtractCards(<<>>, cards, max_results)} :
       \E data \in {AddNewJobs(jobs_data, found, max_results)} :
          /\ new_jobs' = found
          /\ jobs_data' = data
          /\ seen_urls' = UrlsOf(data)
          /\ IF nxt = "clicked" /\ Len(data) < max_results
             THEN /\ next_button' = "clicked"
                  /\ page_num' = page_num + 1
                  /\ lpc' = IF LoopCondition(data, max_results, page_num + 1, max_pages)
                            THEN "loop" ELSE "closed"
             ELSE /\ next_button' = IF nxt = "clicked" THEN "absent" ELSE nxt
                  /\ page_num' = page_num
                  /\ lpc' = "closed"
    /\ iterations' = iterations + 1
    /\ UNCHANGED <<scroll_attempts, frameCollect>>

\* page.evaluate raises: the adapter's `except Exception` returns [].
EvaluateRaises ==
    /\ lpc = "loop"
    /\ lpc' = "raised"
    /\ UNCHANGED <<jobs_data, seen_urls, scroll_attempts, page_num, new_jobs, next_button,
                   iterations, frameCollect>>

NextCollect ==
    \/ \E cards \in Views : ScrollIteration(cards)
    \/ \E cards \in Views, nxt \in {"clicked", "absent", "raises"} : PageIteration(cards, nxt)
    \/ EvaluateRaises

\* None of the units added after fetch_text is in use.
IdleLate == IdleRetry /\ IdleJobspy /\ IdleRefresh /\ IdleCollect

\* None of the units added after the event-loop model is in use.
IdleExt == IdleEnrich /\ IdleAdapt /\ IdleJobs /\ IdleFetch /\ IdleLate

\* Nothing outside scrape_all and the endpoint handlers is in use.
IdleUnits == IdleTTL /\ IdleKeys /\ IdleScore /\ InitLoop /\ IdleExt

(***************************************************************************)
(* Specifications: one scrape_all call under /refresh (Spec), and the      *)
(* cached endpoints (SpecCache).                                           *)
(***************************************************************************)
Init == InitScrape /\ InitCache /\ IdleUnits

Spec == Init /\ [][NextScrape]_vars

\* No scrape_all call in progress.
InitNoScrape ==
    /\ pc = "idle"
    /\ mode = "all"
    /\ enable_headless = FALSE
    /\ use_jobspy = FALSE
    /\ max_sources = <<>>
    /\ tasks = <<>>
    /\ status = <<>>
    /\ produced = <<>>
    /\ results = <<>>
    /\ browser = "none"
    /\ closeCalls = 0
    /\ outOfOrder = FALSE
    /\ jobs = <<>>
    /\ error_count = 0
    /\ source_counts = EmptyCounts
    /\ response = [ok |-> FALSE, count |-> 0, jobs |-> <<>>]
    /\ store = <<>>

InitCacheOnly == InitNoScrape /\ InitCache /\ IdleUnits

SpecCache == InitCacheOnly /\ [][NextCache]_vars

\* One TTLCache object under get, set and the passage of time.
InitTTL == InitNoScrape /\ InitCache /\ TTLCache_init /\ IdleKeys /\ IdleScore /\ InitLoop /\ IdleExt

SpecTTL == InitTTL /\ [][NextTTL]_vars

\* The cache-key functions on two calls.
InitKeyCalls == InitNoScrape /\ InitCache /\ IdleTTL /\ InitKeys /\ IdleScore /\ InitLoop /\ IdleExt

SpecKeys == InitKeyCalls /\ [][NextKeys]_vars

\* calculate_match_score on one job.
InitScoreCall == InitNoScrape /\ InitCache /\ IdleTTL /\ IdleKeys /\ InitScore /\ InitLoop /\ IdleExt

SpecScore == InitScoreCall /\ [][NextScore]_vars

\* The /jobspy handlers on the event loop, statement by statement.
InitLoopOnly == InitNoScrape /\ InitCache /\ IdleUnits

SpecLoop == InitLoopOnly /\ [][NextLoop]_vars

\* The text extractors of scoring.py and the metadata step, on one text.
\* Nothing up to the event-loop model is in use.
IdleCore == InitNoScrape /\ InitCache /\ IdleTTL /\ IdleKeys /\ IdleScore /\ InitLoop

InitEnrichOnly == IdleCore /\ InitEnrich /\ IdleAdapt /\ IdleJobs /\ IdleFetch /\ IdleLate

SpecEnrich == InitEnrichOnly /\ [][NextEnrich]_vars

\* One adapter's normalisation of the same records in two processes.
InitAdaptOnly == IdleCore /\ IdleEnrich /\ InitAdapt /\ IdleJobs /\ IdleFetch /\ IdleLate

SpecAdapt == InitAdaptOnly /\ [][NextAdapt]_vars

\* The read endpoints over one stored list.
InitJobsOnly == IdleCore /\ IdleEnrich /\ IdleAdapt /\ InitJobs /\ IdleFetch /\ IdleLate

SpecJobs == InitJobsOnly /\ [][NextJobs]_vars

\* One fetch_text call.  Every await of the call ends: client.get is given a
\* timeout and answers, times out or raises, and asyncio.sleep returns.
InitFetchOnly == IdleCore /\ IdleEnrich /\ IdleAdapt /\ IdleJobs /\ InitFetch /\ IdleLate

SpecFetch == InitFetchOnly /\ [][NextFetch]_vars /\ WF_vars(NextFetch)

\* The units up to fetch_text are not in use.
IdleEarly == IdleCore /\ IdleEnrich /\ IdleAdapt /\ IdleJobs /\ IdleFetch

\* One _retry_headless_operation call.
InitRetryOnly == IdleEarly /\ InitRetry /\ IdleJobspy /\ IdleRefresh /\ IdleCollect

SpecRetry == InitRetryOnly /\ [][NextRetry]_vars

\* The jobspy adapter and the two limited endpoints, one call each.
InitJobspyOnly == IdleEarly /\ IdleRetry /\ InitJobspy /\ IdleRefresh /\ IdleCollect

SpecJobspy == InitJobspyOnly /\ [][NextJobspy]_vars

\* Overlapping /refresh requests on one event loop.
InitRefreshOnly == IdleEarly /\ IdleRetry /\ IdleJobspy /\ InitRefresh /\ IdleCollect

SpecRefresh == InitRefreshOnly /\ [][NextRefresh]_vars

\* One collection loop; the event loop resumes the coroutine after each await.
InitCollectOnly == IdleEarly /\ IdleRetry /\ IdleJobspy /\ IdleRefresh /\ InitCollect

SpecCollect == InitCollectOnly /\ [][NextCollect]_vars /\ WF_vars(NextCollect)

(***************************************************************************)
(* What the adapters of one call produced, read off `produced` without the *)
(* merge loop: used to state the properties of scrape_all.                 *)
(***************************************************************************)
HasReturned == pc \in {"done", "responded"}


\* Every listing some adapter of this call returned.
ProducedListings == UNION {Range(produced[i].jobs) : i \in DOMAIN produced}

\* Discovery order: adapter-invocation order, then the adapter's output order.
Before(a, b) == a.src < b.src \/ (a.src = b.src /\ a.pos < b.pos)

\* The first listing of its url in discovery order.
IsFirstOfUrl(l) == \A m \in ProducedListings : m.url = l.url => ~Before(m, l)

\* js is exactly the first occurrences of the produced urls, in discovery order.
IsOrderedUnion(js) ==
    /\ Range(js) = {l \in ProducedListings : IsFirstOfUrl(l)}
    /\ \A k, l \in DOMAIN js : k < l => Before(js[k], js[l])

\* Adapters whose coroutine raised, and adapters that failed in any way
\* (raised, or caught their own failure and returned []).
RaisedTasks == {i \in DOMAIN produced : produced[i].kind = "exc"}
FailedTasks == {i \in DOMAIN produced : produced[i].kind = "exc" \/ produced[i].swallowed}

\* A returned list was replaced by the RuntimeError of a re-awaited coroutine.
LostToReuse == \E i \in DOMAIN produced : produced[i].kind = "list" /\ results[i].kind = "exc"

(***************************************************************************)
(* C1  Partial failure isolation: whatever subset of the launched adapters *)
(* raises, scrape_all returns exactly the url-deduplicated union of the    *)
(* outputs of the adapters that did not raise (empty when all fail).       *)
(* Stated as in the claim; the code violates it when browser.close()       *)
(* raises after the adapters have returned.                                *)
(***************************************************************************)
C1_ReturnsUnionOfSurvivors == HasReturned => IsOrderedUnion(jobs)

(***************************************************************************)
(* C2  Dedup: the returned list holds no url twice, and every listing in   *)
(* it is the first of its url in adapter-invocation order, then in that    *)
(* adapter's output order.                                                 *)
(***************************************************************************)
C2_DedupFirstWins ==
    HasReturned =>
        /\ \A k, l \in DOMAIN jobs : k # l => jobs[k].url # jobs[l].url
        /\ \A k \in DOMAIN jobs : jobs[k] \in ProducedListings /\ IsFirstOfUrl(jobs[k])

\* A url came from two adapters and twice from one adapter, and was kept.
C2_Witness ==
    /\ HasReturned
    /\ Len(jobs) > 0
    /\ \E a, b, c \in ProducedListings :
          /\ a.url = b.url /\ b.url = c.url
          /\ a.src < b.src /\ b.src = c.src /\ b.pos < c.pos
          /\ a \in Range(jobs)

(***************************************************************************)
(* C3  Merge order is adapter-invocation order, not completion order: the  *)
(* returned list is determined by what each adapter produced (and by       *)
(* whether the coroutines had to be re-awaited), whatever the order in     *)
(* which the adapters completed.                                           *)
(***************************************************************************)
C3_InvocationOrderMerge ==
    HasReturned => IF LostToReuse THEN jobs = <<>> ELSE IsOrderedUnion(jobs)

\* A later adapter finished before an earlier one, both returned the same
\* url, and the earlier adapter's listing is the one kept.
C3_Witness ==
    /\ HasReturned
    /\ outOfOrder
    /\ \E a, b \in ProducedListings :
          a.url = b.url /\ a.src < b.src /\ a \in Range(jobs)

(***************************************************************************)
(* C4  Each adapter runs under its own timeout: if one adapter never       *)
(* completes, scrape_all still returns.  Stated as in the claim, in the    *)
(* form a finite run refutes: with an adapter hung, the call has returned  *)
(* or can still take a step.  The code awaits a bare gather, so the call   *)
(* is stuck once every other adapter has settled.                          *)
(***************************************************************************)
C4_ReturnsDespiteHungAdapter ==
    (\E i \in DOMAIN status : status[i] = "hung") => (HasReturned \/ ENABLED NextScrape)

(***************************************************************************)
(* C5  A failed adapter (exception escaping it, or a failed fetch inside   *)
(* it) contributes no records and adds one to the failure tally: on return *)
(* error_count is the number of adapters that failed.  Stated as in the    *)
(* claim; the code does not count a failure the adapter caught itself.     *)
(***************************************************************************)
C5_TallyCountsFailedAdapters ==
    HasReturned =>
        /\ \A i \in FailedTasks : produced[i].jobs = <<>>
        /\ error_count = Cardinality(FailedTasks)

(***************************************************************************)
(* C6  The caller of an aggregation receives, with the result set, the     *)
(* number of sources that failed and the per-source counts.  Stated as in  *)
(* the claim; scrape_all returns the list alone and /refresh answers       *)
(* ok/count/jobs.                                                          *)
(***************************************************************************)
C6_ResponseReportsFailures ==
    pc = "responded" =>
        /\ "error_count" \in DOMAIN response
        /\ "source_counts" \in DOMAIN response
        /\ response.error_count = error_count
        /\ response.source_counts = source_counts

(***************************************************************************)
(* C7  A launched browser is closed exactly once before scrape_all         *)
(* returns, on every exit path: close() is never called twice, and once    *)
(* the call has returned close() has been called once and no launched      *)
(* browser is still open.                                                  *)
(***************************************************************************)
C7_BrowserClosedOnce ==
    /\ closeCalls <= 1
    /\ (HasReturned /\ browser # "none") => (closeCalls = 1 /\ browser = "closed")

IsHeadless(a) == a \in Range(HeadlessAdapters)

\* The call returned after a headless adapter failed, and the browser is closed.
C7_Witness ==
    /\ HasReturned
    /\ browser = "closed"
    /\ \E i \in DOMAIN tasks : IsHeadless(tasks[i]) /\ produced[i].swallowed

(***************************************************************************)
(* C8  Lifecycle order of the shared browser: it is acquired before any    *)
(* headless adapter task exists, close() is called only after every task   *)
(* of the call has settled, and no task is running once it is closed.      *)
(***************************************************************************)
C8_BrowserLifecycleOrder ==
    /\ \A i \in DOMAIN tasks : IsHeadless(tasks[i]) => browser # "none"
    /\ closeCalls > 0 => \A i \in DOMAIN status : status[i] = "settled"
    /\ \A i \in DOMAIN status :
          (IsHeadless(tasks[i]) /\ status[i] \in {"running", "hung"}) => browser = "open"

\* The browser was closed after a headless and an HTTP task, which had
\* settled out of invocation order.
C8_Witness ==
    /\ closeCalls = 1
    /\ browser = "closed"
    /\ outOfOrder
    /\ \E i, j \in DOMAIN tasks : IsHeadless(tasks[i]) /\ ~IsHeadless(tasks[j])

(***************************************************************************)
(* C9  Cache hit bypasses the orchestrator: a /jobspy or /rssjobs request  *)
(* with skip_cache=false that arrives while the cache holds an unexpired   *)
(* entry for its key is answered with exactly the stored payload, and its  *)
(* handler starts no upstream scrape or fetch.                             *)
(***************************************************************************)
C9_CacheHitBypassesUpstream ==
    /\ (last.answered /\ ~last.skip_cache /\ last.found # <<>>) =>
           /\ last.content = last.found[1]
           /\ last.x_cache = "HIT"
           /\ ~last.fetched
    /\ \A r \in BagToSet(req) : ~r.skip_cache => r.found = <<>>

\* A hit on an entry in the last tick before its expiry.
C9_Witness ==
    /\ last.answered /\ ~last.skip_cache /\ last.found # <<>>
    /\ last.x_cache = "HIT"
    /\ \E n \in DOMAIN cache[last.ep] :
          /\ cache[last.ep][n].key = KeyOf(last.ep, last.q)
          /\ cache[last.ep][n].expires = now + 1

(***************************************************************************)
(* C10  skip_cache=true forces the upstream path: every answer to such a   *)
(* request comes from a scrape or fetch its handler ran (X-Cache: MISS),   *)
(* never from the cache, even when an unexpired entry exists for the key.  *)
(***************************************************************************)
C10_SkipCacheForcesUpstream ==
    (last.answered /\ last.skip_cache) => (last.fetched /\ last.x_cache = "MISS")

\* A skip_cache request found an unexpired entry and was answered with a
\* fresh payload that differs from the stored one.
C10_Witness ==
    /\ last.answered /\ last.skip_cache
    /\ last.found # <<>>
    /\ last.fetched
    /\ last.content # last.found[1]

(***************************************************************************)
(* TTLCache driven directly (SpecTTL).                                     *)
(***************************************************************************)
\* C11. Cache TTL: a get of a key that is stored, whose latest set happened
\* at instant t with value v, returns v at every instant strictly before
\* t + ttl; from t + ttl on it returns None and the key is no longer stored.
C11_TtlWindow ==
    (call.op = "get" /\ call.had # <<>>) =>
        LET v == call.had[1]
            t == call.had[2]
        IN  IF call.at < t + self_ttl
            THEN call.ret = <<v>> /\ call.key \in Keys(self_store)
            ELSE call.ret = <<>> /\ call.key \notin Keys(self_store)

\* A get at exactly t + ttl found the entry and removed it.
C11_Witness ==
    /\ call.op = "get" /\ call.had # <<>>
    /\ call.at = call.had[2] + self_ttl
    /\ call.ret = <<>>
    /\ call.key \notin Keys(self_store)

\* C12. FIFO+recency eviction: a set that inserts a new key into a full
\* cache evicts exactly the key whose latest set or successful get is the
\* oldest, and every other key stays.
C12_EvictsLeastRecentlyUsed ==
    (call.op = "set" /\ call.had = <<>> /\ call.full) =>
        /\ call.oldest # <<>>
        /\ {e.key : e \in call.evicted} = {call.oldest[1]}
        /\ call.key \in Keys(self_store)

\* Capacity 2: A was set strictly before B and read afterwards; inserting C
\* evicted B and left exactly A and C.
C12_Witness ==
    /\ self_max_entries = 2
    /\ call.op = "set" /\ call.key = "C" /\ call.had = <<>> /\ call.full
    /\ Keys(self_store) = {"A", "C"}
    /\ \E e \in call.evicted : e.key = "B" /\ written["A"][2] < e.at

\* C13. Capacity bound: the number of stored entries never exceeds
\* max_entries.
C13_CapacityBound == Len(self_store) <= self_max_entries

\* A set into a full cache evicted an entry and left the cache full.
C13_Witness ==
    /\ call.op = "set" /\ call.full /\ call.evicted # {}
    /\ Len(self_store) = self_max_entries

\* C14. A set on a key that is already stored, in a cache holding exactly
\* max_entries entries, removes no other key.
C14_SetOfStoredKeyEvictsNothing ==
    (call.op = "set" /\ call.had # <<>> /\ call.full) => call.evicted = {}

(***************************************************************************)
(* The cache-key functions (SpecKeys).                                     *)
(***************************************************************************)
TextParams == {"q", "location", "sites", "preset", "country", "keywords"}

\* A text without its leading and trailing blanks, in lower case.
Canon(t) ==
    LET inked == {n \in DOMAIN t : t[n] # " "}
        first == CHOOSE n \in inked : \A m \in inked : n <= m
        final == CHOOSE n \in inked : \A m \in inked : m <= n
        fold == [c \in {"A", "B", "S", "U"} |->
                    CASE c = "A" -> "a" [] c = "B" -> "b" [] c = "S" -> "s" [] OTHER -> "u"]
    IN  IF inked = {} THEN <<>>
        ELSE [n \in 1..(final - first + 1) |->
                 LET c == t[first + n - 1] IN IF c \in DOMAIN fold THEN fold[c] ELSE c]

IsBlank(name, v) == name \in TextParams /\ (v = None \/ v = Some(<<>>))

\* The semantic parameters of a call: the None and empty values dropped,
\* the texts trimmed and lower-cased; a set, so without order.
Semantic(c) ==
    {<<c.args[n][1],
       IF c.args[n][1] \in TextParams THEN Canon(c.args[n][2][1]) ELSE c.args[n][2]>> :
        n \in {m \in DOMAIN c.args : ~IsBlank(c.args[m][1], c.args[m][2])}}

C16_EmptyResultIsCached ==
    /\ (last.answered /\ last.fetched /\ last.content.ok /\ last.content.count = 0) =>
           Unexpired(cache[last.ep], KeyOf(last.ep, last.q), now) = <<last.content>>
    /\ (last.answered /\ ~last.skip_cache /\ last.found # <<>>
            /\ last.found[1].count = 0) =>
           (last.x_cache = "HIT" /\ ~last.fetched /\ last.content = Payload(<<>>))

\* A request was answered from the cache with a stored empty result.
C16_Witness ==
    /\ last.answered /\ ~last.skip_cache
    /\ last.x_cache = "HIT" /\ ~last.fetched
    /\ last.content = Payload(<<>>)

\* C17. The cache guards the orchestrator from redundant work: for one key,
\* at most one skip_cache=false handler is at its upstream call at a time
\* (a request arriving while another one is still scraping for the same
\* key starts no second aggregation).
C17_OneAggregationPerKey ==
    \A r \in BagToSet(req) : ~r.skip_cache => CopiesIn(r, req) <= 1

\* C18. A cache entry is read-only during its TTL window: in every step, an
\* entry that is unexpired and still stored afterwards keeps its value and
\* its expiry instant.
C18_EntryReadOnly ==
    [][\A ep \in Endpoints : \A n \in DOMAIN cache[ep] :
          now < cache[ep][n].expires =>
              \A m \in DOMAIN cache'[ep] :
                  cache'[ep][m].key = cache[ep][n].key => cache'[ep][m] = cache[ep][n]]_vars

(***************************************************************************)
(* calculate_match_score (SpecScore).                                      *)
(***************************************************************************)
\* C20. Score clamping: whatever the title, description, location,
\* experience bounds (present or absent) and target, the score lies in
\* [0,100]; a tier-1 title with a remote location and the target within
\* [min,max] scores exactly 100.
C20_ScoreClamped ==
    score # <<>> =>
        /\ 0 <= score[1] /\ score[1] <= 100
        /\ (/\ \E role \in TIER_1_ROLES : Contains(TextLower(sinput.job_title), role)
            /\ \E kw \in REMOTE_KEYWORDS : Contains(TextLower(sinput.job_location), kw)
            /\ sinput.job_yoe_min # None /\ sinput.job_yoe_max # None
            /\ sinput.job_yoe_min[1] <= sinput.target_yoe
            /\ sinput.target_yoe <= sinput.job_yoe_max[1])
           => score[1] = 100

\* "Data Analyst", "Remote", 2-4 years wanted, target 3: scored 100.
C20_Witness ==
    /\ score = Some(100)
    /\ sinput.job_title = <<"Data", "Analyst">>
    /\ sinput.job_location = <<"Remote">>
    /\ sinput.job_yoe_min = Some(2) /\ sinput.job_yoe_max = Some(4)
    /\ sinput.target_yoe = 3

(***************************************************************************)
(* The handlers on the event loop (SpecLoop).                              *)
(***************************************************************************)
\* Handler i is inside get_jobspy_cache, TTLCache.get or TTLCache.set.
InCacheCall(i) ==
    h[i].pc \in {"lazy_check", "lazy_create", "lazy_return", "get_lookup", "get_expiry",
                 "get_move", "set_evict", "set_assign", "set_move"}

\* C19. The cache's map mutations are a critical section: at most one
\* handler is inside a cache call at any time; every finished get and set
\* had exactly the effect and result of the whole call applied at once to
\* the store as it was on entry; no call fails halfway; and lazy creation
\* builds a single TTLCache.
C19_CacheCallsAtomic ==
    /\ \A i, j \in Handlers : (InCacheCall(i) /\ InCacheCall(j)) => i = j
    /\ \A i \in Handlers : h[i].pc # "crashed"
    /\ \A i \in Handlers :
          LET op == h[i].lastop
          IN  /\ op.kind = "get" =>
                     LET whole == TTLCache_get(op.snap, op.key, op.t)
                     IN  op.ret = whole.val /\ op.after = whole.store
              /\ op.kind = "set" =>
                     op.after = TTLCache_set(op.snap, op.key, op.val[1], op.t,
                                             JOBSPY_CACHE_TTL, MAX_CACHE_ENTRIES)
    /\ Len(objs) <= 1

\* Two requests were in flight together: the second arrived while the first
\* was suspended at its scrape and found the cache already built; both ran
\* get and set, and the set that came last evicted the other's entry.
C19_Witness ==
    \E i, j \in Handlers :
        /\ i # j
        /\ h[i].overlapped \/ h[j].overlapped
        /\ h[i].pc = "done" /\ h[i].lastop.kind = "set"
        /\ h[j].pc = "done" /\ h[j].lastop.kind = "set"
        /\ h[i].lastop.snap # <<>>
        /\ h[i].lastop.snap[1].val = h[j].lastop.val[1]
        /\ h[i].lastop.key # h[j].lastop.key
        /\ ~h[i].skip /\ ~h[j].skip
        /\ Len(objs) = 1

\* C21. Experience-fit sub-score, for every min, max and target tried: both
\* absent gives 15; both present gives 30 if min<=target<=max, else 20 if
\* min<=target+1<=max, else 0 if max>=5, else 10; only min present gives 0
\* if min>target, else 0 if min>=5, else 25 if min<=target+1, else 10; only
\* max present gives 0 if max<target, else 0 if max>=5, else 25.
C21_ExperienceFit ==
    yoe_points # <<>> =>
        LET lo == sinput.job_yoe_min
            hi == sinput.job_yoe_max
            target == sinput.target_yoe
            got == yoe_points[1]
        IN  /\ (lo = None /\ hi = None) => got = 15
            /\ (lo # None /\ hi # None) =>
                   got = IF lo[1] <= target /\ target <= hi[1] THEN 30
                         ELSE IF lo[1] <= target + 1 /\ target + 1 <= hi[1] THEN 20
                         ELSE IF hi[1] >= 5 THEN 0
                         ELSE 10
            /\ (lo # None /\ hi = None) =>
                   got = IF lo[1] > target THEN 0
                         ELSE IF lo[1] >= 5 THEN 0
                         ELSE IF lo[1] <= target + 1 THEN 25
                         ELSE 10
            /\ (lo = None /\ hi # None) =>
                   got = IF hi[1] < target THEN 0
                         ELSE IF hi[1] >= 5 THEN 0
                         ELSE 25

\* A 5-6 year range against a target of 2 was scored: the senior exclusion
\* gave 0 where a junior mismatch would have given 10.
C21_Witness ==
    /\ yoe_points = Some(0)
    /\ sinput.job_yoe_min = Some(5) /\ sinput.job_yoe_max = Some(6)
    /\ sinput.target_yoe = 2

\* C22. Experience range invariant: a listing that leaves the enrichment with
\* both experienceMin and experienceMax has experienceMin <= experienceMax;
\* a text that yields min > max (a range written "5-3 years") leaves the
\* listing with neither bound.
C22_ExperienceRangeOrdered ==
    (ecall = "enrich" /\ eout # <<>>) =>
        LET job == eout[1]
        IN  (job.yoe_min # None /\ job.yoe_max # None) => job.yoe_min[1] <= job.yoe_max[1]

C24_CurrencyIsTableHitOrNone ==
    (ecall = "extract_salary_currency" /\ eout # <<>>) =>
        LET found == {n \in DOMAIN currency_map : Contains(Lower(edesc), currency_map[n][1])}
            code == eout[1][3]
        IN  IF found = {} THEN code = None
            ELSE \E n \in found : code = Some(currency_map[n][2])

\* C25. Normalisation failure: a raw record without a URL or without a title
\* never becomes a listing and never raises; it is dropped, and every other
\* record of the adapter's output is still emitted.
C25_UnusableRecordsDropped ==
    \A p \in Processes :
        aout[p] # <<>> =>
            /\ \A n \in DOMAIN aout[p][1] :
                  aout[p][1][n] # ValidationError
                      /\ aout[p][1][n].url # "" /\ aout[p][1][n].title # ""
            /\ \A n \in DOMAIN araw :
                  (/\ araw[n].title # "" /\ IsHttpUrl(araw[n].link)
                   /\ araw[n].matches /\ araw[n].date = None)
                      => \E k \in DOMAIN aout[p][1] : aout[p][1][k].url = araw[n].link

\* C27. Listing id is stable: the id is a function of the source name and
\* the url only, so two runs of the program (two processes) that meet the
\* same url from the same source give it the same id.
C27_IdStableAcrossRuns ==
    \A p, q \in Processes :
        (aout[p] # <<>> /\ aout[q] # <<>>) =>
            \A n \in DOMAIN aout[p][1], k \in DOMAIN aout[q][1] :
                (/\ aout[p][1][n].source = aout[q][1][k].source
                 /\ aout[p][1][n].url = aout[q][1][k].url)
                    => aout[p][1][n].id = aout[q][1][k].id

\* C26. A listing without a posted date is never excluded by a recency
\* filter: _within_days(None, d) is true for every d, and /jobs, /jobs/rss
\* and /jobs/grouped-by-currency never drop a dateless stored job at their
\* date filter, whatever the value of days.
C26_DatelessNeverTooOld ==
    jresp # <<>> =>
        \A n \in DOMAIN jstore :
            jstore[n].date = None =>
                IF jreq.op = "_within_days" THEN jverdict[n] = TRUE ELSE jverdict[n] # "date"

\* /jobs with no other filter served a store holding a dateless job and a
\* job forty days old: the old one was dropped for its date, the dateless
\* one is the response.
C26_Witness ==
    /\ jresp # <<>> /\ jreq.op = "/jobs"
    /\ \E n, k \in DOMAIN jstore :
          /\ jstore[n].date = None /\ jverdict[n] = "kept"
          /\ jverdict[k] = "date"
          /\ jresp[1].count = 1 /\ jresp[1].jobs[1].url = jstore[n].url

(***************************************************************************)
(* C28  No cross-task mutation races in scrape_all: the dedup set and the  *)
(* output list (with the counters kept beside them) are created and        *)
(* written only after every adapter task of the call has settled, and no   *)
(* step of an adapter task touches them.                                   *)
(***************************************************************************)
MergeState == <<jobs, error_count, source_counts>>
MergeUntouched == MergeState = <<(<<>>), 0, EmptyCounts>>
AllSettled == \A i \in DOMAIN status : status[i] = "settled"

C28_MergeOnlyAfterAllSettled ==
    /\ ~AllSettled => MergeUntouched
    /\ (pc = "start" \/ Gathering \/ pc \in {"finally", "merge"}) => MergeUntouched
    /\ HasReturned => AllSettled

\* The call returned a merged list of two jobs and counted a raised task,
\* after its tasks had settled out of invocation order.
C28_Witness ==
    /\ pc = "done"
    /\ outOfOrder
    /\ Len(jobs) >= 2
    /\ error_count >= 1

(***************************************************************************)
(* C29  The cache only ever stores values the aggregation itself produced: *)
(* after any sequence of /jobspy and /rssjobs requests every value held in *)
(* either cache is an ok=true response payload; a step that answers with   *)
(* an error body stores nothing, so the cache is left as it was and a      *)
(* later identical request finds no entry written by the failed one.       *)
(***************************************************************************)
IsOkPayload(v) == v.ok /\ v = Payload(v.jobs)
ErrorAnswer(a) == a.answered /\ ~a.content.ok

C29_OnlyOkPayloadsStored ==
    /\ [](\A ep \in Endpoints : \A n \in DOMAIN cache[ep] : IsOkPayload(cache[ep][n].val))
    /\ [][ErrorAnswer(last') => (last'.fetched /\ cache' = cache)]_vars

\* A /rssjobs fetch has just failed for a key with no unexpired entry, while
\* the same cache holds an entry of another key: the next identical request
\* will miss and fetch again.
C29_Witness ==
    /\ ErrorAnswer(last)
    /\ last.ep = "rssjobs"
    /\ Unexpired(cache[last.ep], KeyOf(last.ep, last.q), now) = <<>>
    /\ cache[last.ep] # <<>>

(***************************************************************************)
(* fetch_text (SpecFetch).                                                 *)
(***************************************************************************)
\* A 429/503/504 response, a timeout or any other exception.
MayBeRetried(o) == o.kind # "response" \/ o.status_code \in {429, 503, 504}

FetchTextContract ==
    /\ Len(history) <= retries + 1
    /\ \A n \in 1..(Len(history) - 1) : MayBeRetried(history[n])
    /\ fout # <<>> =>
          /\ fpc = "left"
          /\ fout[1].kind = "return"
          /\ IF history = <<>> THEN fout[1].text = ""
             ELSE LET o == history[Len(history)]
                  IN  IF o.kind = "response" /\ o.status_code = 200
                      THEN fout[1].text = o.text
                      ELSE /\ fout[1].text = ""
                           /\ MayBeRetried(o) => Len(history) = retries + 1
    /\ fpc = "left" => fout # <<>>

(***************************************************************************)
(* C30  fetch_text always terminates without raising after at most         *)
(* retries+1 HTTP attempts: it returns the body of the first 200 response; *)
(* a 429/503/504 response, a timeout or any other exception is retried     *)
(* while attempts remain; any other status returns "" at once, with no     *)
(* further attempt; when the attempts are exhausted it returns "".         *)
(***************************************************************************)
C30_FetchTextTerminates == [](FetchTextContract) /\ <>(fpc = "left")

\* With retries=2, a 429 and a timeout were retried and the third attempt's
\* 200 body was returned.
C30_Witness ==
    /\ retries = 2
    /\ history = <<Response(429, ""), TimeoutException, Response(200, "<rss/>")>>
    /\ fout = Some(Returns("<rss/>"))

(***************************************************************************)
(* C31  _retry_headless_operation calls the operation at most              *)
(* max_retries+1 times: it returns the result of the first attempt that    *)
(* succeeds and makes no further attempt; if all max_retries+1 attempts    *)
(* raise it re-raises the last exception; before retry number k (k from 0) *)
(* it waits delay*2^k.                                                     *)
(***************************************************************************)
C31_RetryHeadlessOperation ==
    /\ Len(rcalls) <= max_retries + 1
    /\ \A n \in 1..(Len(rcalls) - 1) : rcalls[n].kind = "raise"
    /\ \A k \in DOMAIN rwaits :
          /\ rwaits[k] = delay * (2 ^ (k - 1))
          /\ k <= Len(rcalls) /\ k <= max_retries
    /\ Len(rwaits) \in {Len(rcalls) - 1, Len(rcalls)}
    /\ rpc = "call" => Len(rwaits) = Len(rcalls)
    /\ (rout # <<>> /\ rcalls # <<>>) =>
          LET o == rcalls[Len(rcalls)]
          IN  /\ rout[1] = o
              /\ Len(rwaits) = Len(rcalls) - 1
              /\ o.kind = "raise" => Len(rcalls) = max_retries + 1

\* With max_retries=2 and delay=2 the operation raised twice, the call
\* waited 2 and 4 seconds, and the third attempt's value was returned.
C31_Witness ==
    /\ max_retries = 2 /\ delay = 2
    /\ rwaits = <<2, 4>>
    /\ Len(rcalls) = 3
    /\ rout = Some(OperationResult("html"))

(***************************************************************************)
(* C32  resolve_jobspy_sites returns, for every sites/preset input, a      *)
(* non-empty list containing only supported sites: an explicit non-empty   *)
(* sites list takes priority over the preset and is filtered to supported  *)
(* names; if nothing remains, or the preset is absent or unknown, the      *)
(* popular preset is returned.                                             *)
(***************************************************************************)
SupportedNames ==
    {indeed, linkedin, zip_recruiter, glassdoor, google, bayt, naukri, bdjobs}
\* What a name as written stands for.
Meant(name) ==
    CASE name \in {indeed, SpacedIndeed} -> indeed
      [] name = UpperNaukri -> naukri
      [] name = SpacedRemote -> remote
      [] name = UpperAll -> all_
      [] OTHER -> name
ExplicitSites ==
    IF gsites = None THEN <<>>
    ELSE LET named == SelectSeq(gsites[1], LAMBDA x : Meant(x) \in SupportedNames)
         IN  [n \in DOMAIN named |-> Meant(named[n])]
PresetMeant == IF gpreset = None THEN <<>> ELSE Meant(gpreset[1])

C32_ResolvedSitesSupported ==
    (gcall = "resolve_jobspy_sites" /\ gout # <<>>) =>
        LET out == gout[1]
        IN  /\ out # <<>>
            /\ \A n \in DOMAIN out : out[n] \in SupportedNames
            /\ (gsites # None /\ gsites[1] # <<>>) =>
                   out = (IF ExplicitSites # <<>> THEN ExplicitSites ELSE JOBSPY_PRESET_POPULAR)
            /\ ((gsites = None \/ gsites[1] = <<>>) /\ PresetMeant \notin {remote, all_}) =>
                   out = JOBSPY_PRESET_POPULAR

\* A list with an unsupported and a differently written supported name was
\* resolved to the supported one although a known preset was given too.
C32_Witness ==
    /\ gcall = "resolve_jobspy_sites"
    /\ gsites = Some(<<monster, UpperNaukri>>)
    /\ gpreset = Some(UpperAll)
    /\ gout = Some(<<naukri>>)

(***************************************************************************)
(* C33  scrape_jobspy_sources scrapes each resolved site separately so one *)
(* failing site does not block the others: a site whose scrape raises      *)
(* contributes no records, the records of every other site are still       *)
(* returned, the function never raises, and across sites a job_url appears *)
(* at most once with the first site's record kept.                         *)
(***************************************************************************)
ResolvedSites == resolve_jobspy_sites(gsites, gpreset)
BoardOf(n) == Concat(ResolvedSites[n])
DoesAt(n) == site_does[ResolvedSites[n]]
ListsShared(n) == DoesAt(n) \in {"shared", "full_shared"}

C33_FailingSiteDoesNotBlock ==
    (gcall = "jobspy_jobs" /\ gout # <<>>) =>
        LET found == gout[1].jobs
            wanted == IF glimit \div Len(ResolvedSites) > 100 THEN 100
                      ELSE IF glimit \div Len(ResolvedSites) < 10 THEN 10
                      ELSE glimit \div Len(ResolvedSites)
            urls == {found[n].url : n \in DOMAIN found}
        IN  /\ gout[1].ok
            /\ \A i, j \in DOMAIN found : i # j => found[i].url # found[j].url
            /\ \A n \in DOMAIN ResolvedSites :
                  /\ DoesAt(n) = "raises" =>
                         \A k \in DOMAIN found : found[k].source # <<"jobspy", BoardOf(n)>>
                  /\ DoesAt(n) \in {"full", "full_shared"} =>
                         \A k \in 2..wanted : SiteUrlOf(BoardOf(n), k) \in urls
                  /\ DoesAt(n) = "full" => SiteUrlOf(BoardOf(n), 1) \in urls
                  /\ (ListsShared(n) /\ \A m \in 1..(n - 1) : ~ListsShared(m)) =>
                         \E k \in DOMAIN found :
                             /\ found[k].url = SharedUrl
                             /\ found[k].source = <<"jobspy", BoardOf(n)>>

\* Three boards were scraped: naukri raised, and indeed and linkedin both
\* listed the shared job, which was returned as indeed's.
C33_Witness ==
    /\ gcall = "jobspy_jobs" /\ gout # <<>>
    /\ gsites = Some(<<naukri, indeed, linkedin>>)
    /\ site_does[naukri] = "raises"
    /\ site_does[indeed] = "shared" /\ site_does[linkedin] = "full_shared"
    /\ \E k \in DOMAIN gout[1].jobs :
          gout[1].jobs[k].url = SharedUrl /\ gout[1].jobs[k].source = <<"jobspy", "indeed">>

(***************************************************************************)
(* C34  Result-count bound: the responses of /jobspy and /rssjobs contain  *)
(* at most limit jobs (count <= limit) for every limit in 1..400 and every *)
(* site selection.  Stated as in the claim; /jobspy asks every site for at *)
(* least ten jobs and returns all it gets.                                 *)
(***************************************************************************)
C34_CountWithinLimit ==
    (gcall \in {"jobspy_jobs", "rssjobs_proxy"} /\ gout # <<>>) =>
        (gout[1].count <= glimit /\ Len(gout[1].jobs) <= glimit)

(***************************************************************************)
(* C35  If headless scraping fails in scrape_all (the browser cannot be    *)
(* started, or an error is raised while running or closing the shared      *)
(* browser), scrape_all falls back to HTTP-only: it still returns the      *)
(* listings produced by the RSS/HTTP adapters of that call, and listings   *)
(* already produced by adapters are not lost.  Stated for every call that  *)
(* uses the browser, a failed one included; the code violates it when      *)
(* browser.close() raises.                                                 *)
(***************************************************************************)
ReturnedUrls == {jobs[k].url : k \in DOMAIN jobs}

C35_FallbackKeepsListings ==
    (HasReturned /\ UsesBrowser) =>
        \A i \in DOMAIN produced :
            produced[i].kind = "list" =>
                \A k \in DOMAIN produced[i].jobs : produced[i].jobs[k].url \in ReturnedUrls

(***************************************************************************)
(* C36  Enrichment in scrape_all only fills fields that are unset: a value *)
(* the adapter already supplied for yoe_min, yoe_max, visa_sponsorship,    *)
(* salary_min, salary_max, currency or match_score is never overwritten,   *)
(* match_score is computed at most once per listing, and a listing whose   *)
(* enrichment raises is still included in the result.                      *)
(***************************************************************************)
C36_EnrichmentFillsOnlyUnset ==
    (ecall = "enrich" /\ eout # <<>>) =>
        /\ \A f \in {"yoe_min", "yoe_max", "visa_sponsorship", "salary_min", "salary_max",
                     "currency", "match_score"} :
              ejob[f] # <<>> => eout[1][f] = ejob[f]
        /\ eran.scored <= 1
        /\ ejob.match_score # <<>> => eran.scored = 0
        /\ eran.appended

\* A job whose adapter set the pay in EUR and whose text quotes another pay
\* kept its pay and currency, had its experience range read from the text
\* and was scored once.
C36_Witness ==
    /\ ecall = "enrich" /\ eout # <<>>
    /\ ejob.currency = <<"EUR">> /\ ejob.yoe_min = <<>> /\ efails = "none"
    /\ eform = [form |-> "Other", n |-> 11, m |-> 0]
    /\ eout[1].currency = <<"EUR">>
    /\ eout[1].yoe_min = <<3>> /\ eout[1].yoe_max = <<5>>
    /\ eout[1].match_score # <<>>
    /\ eran = [scored |-> 1, appended |-> TRUE]

(***************************************************************************)
(* C37  After a /refresh request completes, the job store holds exactly    *)
(* the listings that this aggregation returned, in the same order; the     *)
(* previous contents are fully replaced (also when the aggregation         *)
(* returned an empty list), and with several refreshes in flight the store *)
(* equals the result of the one that finished last.                        *)
(***************************************************************************)
Finishes == SelectSeq(rlog, LAMBDA e : e[1] = "finish")

C37_StoreHoldsLastRefresh ==
    /\ Finishes = <<>> => load_jobs(data_file) = rprev
    /\ Finishes # <<>> =>
          LET r == Finishes[Len(Finishes)][2]
          IN  /\ rh[r].pc = "done"
              /\ load_jobs(data_file) = rh[r].jobs
              /\ Len(data_file.jobs) = Len(rh[r].jobs)

\* Two refreshes overlapped over a store that held two jobs: the second to
\* start finished first with two jobs, then the first finished with none,
\* and the store is empty.
C37_Witness ==
    /\ rlog = <<<<"start", 1>>, <<"start", 2>>, <<"finish", 2>>, <<"finish", 1>>>>
    /\ rprev # <<>>
    /\ Len(rh[2].jobs) = 2
    /\ rh[1].jobs = <<>>
    /\ data_file.jobs = <<>>

(***************************************************************************)
(* C38  /jobs pagination: when both page and per_page are given the        *)
(* response is the slice [(page-1)*per_page, page*per_page) of the         *)
(* filtered, sorted list with total = number of filtered jobs and count =  *)
(* length of the slice <= per_page; otherwise the response is the first    *)
(* limit jobs with count <= limit; in both cases count equals the number   *)
(* of jobs returned.                                                       *)
(***************************************************************************)
FilteredSorted ==
    SortDescending(<<>>, Filtered([n \in DOMAIN jstore |-> Scored(jstore[n], jreq)], jreq),
                   jreq.sort)

Paginated == jreq.page # None /\ jreq.per_page # None

PageOf(xs, page, per_page) ==
    [n \in 1..Cardinality({k \in DOMAIN xs : (page - 1) * per_page < k /\ k <= page * per_page})
        |-> xs[(page - 1) * per_page + n]]

C38_JobsPagination ==
    (jresp # <<>> /\ jreq.op = "/jobs") =>
        LET answer == jresp[1]
        IN  /\ answer.count = Len(answer.jobs)
            /\ Paginated =>
                  /\ answer.jobs = PageOf(FilteredSorted, jreq.page[1], jreq.per_page[1])
                  /\ answer.total = Some(Len(FilteredSorted))
                  /\ answer.count <= jreq.per_page[1]
            /\ ~Paginated =>
                  /\ answer.jobs = PageOf(FilteredSorted, 1, jreq.limit)
                  /\ answer.count <= jreq.limit

(***************************************************************************)
(* C39  TTLCache expiry is fixed at write time: a successful get moves the *)
(* entry to the back of the eviction order but never changes its expiry    *)
(* instant, while a set on an existing key replaces the value, resets the  *)
(* expiry to now+ttl and moves the entry to the back of the eviction       *)
(* order.                                                                  *)
(***************************************************************************)
EntriesOf(st, k) == {n \in DOMAIN st : st[n].key = k}

SuccessfulGetStep ==
    (call'.op = "get" /\ call'.ret # <<>>) =>
        LET k == call'.key
        IN  /\ k \in Keys(self_store)
            /\ Len(self_store') = Len(self_store)
            /\ self_store'[Len(self_store')] = self_store[IndexOf(self_store, k)]
            /\ call'.ret = <<self_store[IndexOf(self_store, k)].val>>

SetOnExistingStep ==
    (call'.op = "set" /\ call'.key \in Keys(self_store)) =>
        LET k == call'.key
            back == self_store'[Len(self_store')]
        IN  /\ Cardinality(EntriesOf(self_store', k)) = 1
            /\ back = Entry(k, written'[k][1], now + self_ttl)

C39_ExpiryFixedAtWrite == [][SuccessfulGetStep /\ SetOnExistingStep]_vars

\* A get found the least recently used of two entries some time after it was
\* written: the entry is now at the back and still expires ttl after its
\* write, not ttl after the get.
C39_Witness ==
    /\ call.op = "get" /\ call.ret # <<>>
    /\ call.oldest = <<call.key>>
    /\ Len(self_store) = 2
    /\ self_store[2].key = call.key
    /\ written[call.key][2] < now
    /\ self_store[2].expires = written[call.key][2] + self_ttl

(***************************************************************************)
(* C40  Each headless adapter's collection loop (e.g. scrape_linkedin,     *)
(* scrape_indeed_headless) terminates after at most 10 scroll/page         *)
(* iterations, stops early when an iteration yields no jobs or no next     *)
(* page, and collects at most max_results raw items with pairwise distinct *)
(* urls.                                                                   *)
(***************************************************************************)
DistinctUrls(items) == \A a, b \in DOMAIN items : items[a].url = items[b].url => a = b

\* The loop goes on only after an iteration that found jobs, resp. a next page.
StopsEarly ==
    (lpc = "loop" /\ iterations > 0) =>
        /\ loop_kind = "scroll" => new_jobs # <<>>
        /\ loop_kind = "page" => next_button = "clicked"

CollectionBounds ==
    /\ iterations <= 10
    /\ Len(jobs_data) <= max_results
    /\ DistinctUrls(jobs_data)
    /\ StopsEarly

C40_CollectionLoopBounded == []CollectionBounds /\ <>(lpc # "loop")

\* A scroll loop ended by its tenth pass with fewer than max_results items,
\* the page having shown cards every time.
C40_Witness ==
    /\ loop_kind = "scroll" /\ lpc = "closed"
    /\ iterations = 10
    /\ new_jobs # <<>>
    /\ jobs_data # <<>> /\ Len(jobs_data) < max_results

====
